---- MODULE Spec2Model ----
(***************************************************************************)
(* A model of the simulation engine (packages/simulation/src/engine.py)    *)
(* and of the two economic models it drives (Solow growth, IS-LM).         *)
(*                                                                         *)
(* Real numbers are exact rationals <<numerator, denominator>> in lowest   *)
(* terms with a positive denominator.  Powers with a rational exponent     *)
(* (k^alpha) are kept as symbolic monomials c * b1^e1 * b2^e2 ...          *)
(* Python lists and numpy arrays are functions over 0..len-1, so that the  *)
(* indices of the model are the indices of the source.                     *)
(***************************************************************************)
EXTENDS Integers, Sequences, FiniteSets, TLC

VARIABLES
    engine_model,   \* SimulationEngine.model (self.model)
    pc,             \* position of the caller / of the running call
    op,             \* the engine method that is running or has finished
    horizon,        \* argument horizon
    shock_times,    \* simulate_islm: argument shock_times
    shock_types,    \* simulate_islm: argument shock_types
    shock_sizes,    \* simulate_islm: argument shock_sizes
    t,              \* simulate_islm: loop variable of "for t in range(1, n)"
    shock_idx,      \* simulate_islm: last index the inner loop has handled at t (-1: none)
    current_G,      \* simulate_islm: local current_G
    current_T,      \* simulate_islm: local current_T
    current_M,      \* simulate_islm: local current_M
    current_model,  \* simulate_islm: local current_model
    income,         \* simulate_islm: local array income
    interest_rate,  \* simulate_islm: local array interest_rate
    consumption,    \* simulate_islm: local array consumption
    investment,     \* simulate_islm: local array investment
    n_equilibria,   \* number of calculate_equilibrium() calls the running call has made
    time_step,      \* simulate_solow / impulse_response: argument time_step
    initial_capital,\* simulate_solow: argument initial_capital (None when omitted)
    shock_var,      \* impulse_response: argument shock_var
    shock_size,     \* impulse_response: argument shock_size
    sim_model,      \* simulate_solow: self.model of the engine that runs it
    ss,             \* impulse_response: local ss (the pre-shock steady state)
    result,         \* the SimulationResult returned, or None
    error,          \* the exception raised, or None
    frames,         \* concurrent callers: the simulate_islm frame of each thread
    obj,            \* model level: the parameter set under construction / in use
    call,           \* model level: the last operation on obj and its outcome
    http            \* API level: the last request and the response it got

vars == << engine_model, pc, op, horizon, shock_times, shock_types, shock_sizes,
           t, shock_idx, current_G, current_T, current_M, current_model,
           income, interest_rate, consumption, investment, n_equilibria,
           time_step, initial_capital, shock_var, shock_size, sim_model, ss,
           result, error, frames, obj, call, http >>

\* The state of one engine and its single caller.
engine_vars == << engine_model, pc, op, horizon, shock_times, shock_types,
                  shock_sizes, t, shock_idx, current_G, current_T, current_M,
                  current_model, income, interest_rate, consumption, investment,
                  n_equilibria, time_step, initial_capital, shock_var,
                  shock_size, sim_model, ss, result, error >>

\* The state outside that engine's single call: the frames of concurrent
\* callers, the parameter object the model-level operations act on, and the
\* last exchange of the HTTP API.
other_vars == << frames, obj, call, http >>

solow_locals == << time_step, initial_capital, shock_var, shock_size, sim_model, ss >>

islm_locals == << shock_times, shock_types, shock_sizes, t, shock_idx, current_G,
                  current_T, current_M, current_model, income, interest_rate,
                  consumption, investment, n_equilibria >>

None == [none |-> TRUE]

(***************************************************************************)
(* Bounds of the model.                                                    *)
(***************************************************************************)
MaxHorizon == 2
MaxShocks == 2

\* Significand bits of the floats of the Solow time grid (binary64 has 53).
SignificandBits == 5

(***************************************************************************)
(* Exact rational arithmetic (Python floats, idealised).                   *)
(***************************************************************************)
Abs(x) == IF x < 0 THEN -x ELSE x

RECURSIVE GCD(_, _)
GCD(a, b) == IF b = 0 THEN a ELSE GCD(b, a % b)

Norm(n, d) ==
    LET g == GCD(Abs(n), Abs(d))
        s == IF d < 0 THEN -1 ELSE 1
    IN  << (s * n) \div g, (s * d) \div g >>

R(n) == << n, 1 >>
Q(n, d) == Norm(n, d)
Zero == R(0)
One == R(1)

RAdd(x, y) == Norm(x[1] * y[2] + y[1] * x[2], x[2] * y[2])
RSub(x, y) == Norm(x[1] * y[2] - y[1] * x[2], x[2] * y[2])
RMul(x, y) == Norm(x[1] * y[1], x[2] * y[2])
RDiv(x, y) == Norm(x[1] * y[2], x[2] * y[1])
RLt(x, y) == x[1] * y[2] < y[1] * x[2]
RLe(x, y) == x[1] * y[2] <= y[1] * x[2]

PyLen(l) == Cardinality(DOMAIN l)

(***************************************************************************)
(* IS-LM model (packages/models/src/macroeconomic/islm.py).                *)
(***************************************************************************)

\* Mutant of ISLMViolations: government_spending and taxes are gt=0.
ISLMViolations_all_positive(p) ==
    { f \in { "autonomous_consumption", "mpc", "autonomous_investment",
              "investment_sensitivity", "autonomous_money_demand",
              "income_money_demand", "interest_money_demand",
              "government_spending", "taxes", "money_supply", "price_level" } :
        CASE f = "mpc" -> ~(RLt(Zero, p[f]) /\ RLt(p[f], One))
          [] OTHER -> ~RLt(Zero, p[f]) }

\* ISLMParameters: the Field(gt=..., ge=..., lt=...) bounds, field by field.
ISLMViolations(p) ==
    { f \in { "autonomous_consumption", "mpc", "autonomous_investment",
              "investment_sensitivity", "autonomous_money_demand",
              "income_money_demand", "interest_money_demand",
              "government_spending", "taxes", "money_supply", "price_level" } :
        CASE f = "mpc" -> ~(RLt(Zero, p[f]) /\ RLt(p[f], One))
          [] f \in { "government_spending", "taxes" } -> ~RLe(Zero, p[f])
          [] OTHER -> ~RLt(Zero, p[f]) }

ISLMParametersValid(p) == ISLMViolations(p) = {}

\* Mutant of ISLM_consumption: consumption out of gross income, taxes forgotten.
ISLM_consumption_gross(p, Y) ==
    RAdd(p.autonomous_consumption, RMul(p.mpc, Y))

\* ISLMModel.consumption
ISLM_consumption(p, Y) ==
    RAdd(p.autonomous_consumption, RMul(p.mpc, RSub(Y, p.taxes)))

\* ISLMModel.investment
ISLM_investment(p, r) ==
    RSub(p.autonomous_investment, RMul(p.investment_sensitivity, r))

\* Mutant of real_money_supply: the ratio is taken upside down.
real_money_supply_inverted(p) == RDiv(p.price_level, p.money_supply)

\* ISLMModel.real_money_supply
real_money_supply(p) == RDiv(p.money_supply, p.price_level)

\* ISLMModel.calculate_equilibrium.equations: << is_residual, lm_residual >>
equations(p, Y, r) ==
    << RSub(Y, RAdd(RSub(RAdd(RAdd(p.autonomous_consumption,
                                   RMul(p.mpc, RSub(Y, p.taxes))),
                              p.autonomous_investment),
                         RMul(p.investment_sensitivity, r)),
                    p.government_spending)),
       RSub(real_money_supply(p),
            RSub(RAdd(p.autonomous_money_demand, RMul(p.income_money_demand, Y)),
                 RMul(p.interest_money_demand, r))) >>

\* The Newton update x0 - J^-1 F(x0) for the 2x2 Jacobian ((a, b), (c, d)).
newton_update(x0, F0, a, b, c, d, det) ==
    << RSub(x0[1], RDiv(RSub(RMul(d, F0[1]), RMul(b, F0[2])), det)),
       RSub(x0[2], RDiv(RSub(RMul(a, F0[2]), RMul(c, F0[1])), det)) >>

\* The forward-difference Jacobian from the residuals at x0, x0 + (1, 0), x0 + (0, 1).
newton_jacobian(x0, F0, a, b, c, d) ==
    newton_update(x0, F0, a, b, c, d, RSub(RMul(a, d), RMul(b, c)))

newton_step(x0, F0, FY, Fr) ==
    newton_jacobian(x0, F0, RSub(FY[1], F0[1]), RSub(Fr[1], F0[1]),
                    RSub(FY[2], F0[2]), RSub(Fr[2], F0[2]))

\* Mutant of fsolve: the solver hands back the initial guess.
fsolve_initial_guess(p, guess) == guess

\* scipy.optimize.fsolve(equations, initial_guess): a Newton step from the
\* initial guess with a forward-difference Jacobian, which lands on the root
\* of a system that is linear in (Y, r).
fsolve(p, guess) ==
    newton_step(guess,
                equations(p, guess[1], guess[2]),
                equations(p, RAdd(guess[1], One), guess[2]),
                equations(p, guess[1], RAdd(guess[2], One)))

\* The dictionary calculate_equilibrium returns (islm.py 263-279).
equilibrium_dict(p, Y_star, r_star, C_star, I_star) ==
    [ income |-> Y_star,
      interest_rate |-> r_star,
      consumption |-> C_star,
      investment |-> I_star,
      aggregate_demand |-> RAdd(RAdd(C_star, I_star), p.government_spending),
      real_money_supply |-> real_money_supply(p),
      multiplier |-> RDiv(One, RSub(One, p.mpc)) ]

equilibrium_quantities(p, solution) ==
    equilibrium_dict(p, solution[1], solution[2],
                     ISLM_consumption(p, solution[1]),
                     ISLM_investment(p, solution[2]))

\* The heuristic initial guess (y0, r0) of calculate_equilibrium (islm.py 227-235).
initial_guess(p) ==
    << RAdd(RAdd(p.autonomous_consumption, p.autonomous_investment),
            p.government_spending),
       Q(1, 20) >>

\* ISLMModel.calculate_equilibrium with initial_guess = None
calculate_equilibrium(p) ==
    equilibrium_quantities(p, fsolve(p, initial_guess(p)))

(***************************************************************************)
(* Solow growth model (packages/models/src/macroeconomic/solow.py).        *)
(*                                                                         *)
(* A quantity of the Solow model is a monomial c * b1^e1 * ... * bn^en     *)
(* with a rational coefficient c, rational exponents and bases that are    *)
(* either a rational [rat |-> q] or a value the ODE integrator returned.   *)
(***************************************************************************)

SolowFields == { "savings_rate", "depreciation_rate", "population_growth",
                 "tech_growth", "alpha", "initial_capital" }

\* SolowParameters: the Field(...) bounds a value violates, field by field.
SolowViolations(p) ==
    { v \in [ field : SolowFields, constraint : { "gt 0", "ge 0", "lt 1", "lt 0.1" } ] :
        CASE v.field \in { "savings_rate", "depreciation_rate", "alpha" } ->
                 \/ v.constraint = "gt 0" /\ ~RLt(Zero, p[v.field])
                 \/ v.constraint = "lt 1" /\ ~RLt(p[v.field], One)
          [] v.field \in { "population_growth", "tech_growth" } ->
                 \/ v.constraint = "ge 0" /\ ~RLe(Zero, p[v.field])
                 \/ v.constraint = "lt 0.1" /\ ~RLt(p[v.field], Q(1, 10))
          [] OTHER -> v.constraint = "gt 0" /\ ~RLt(Zero, p[v.field]) }

SolowParametersValid(p) == SolowViolations(p) = {}

MRat(q) == [ c |-> q, factors |-> << >> ]
MSym(b) == [ c |-> One, factors |-> << << b, One >> >> ]
MScale(q, m) == [ m EXCEPT !.c = RMul(q, m.c) ]

\* m ** e
MPow(m, e) ==
    ( IF m.c = One THEN << >> ELSE << << [ rat |-> m.c ], e >> >> )
    \o [ i \in 1 .. Len(m.factors) |->
           << m.factors[i][1], RMul(m.factors[i][2], e) >> ]

MPower(m, e) == [ c |-> One, factors |-> MPow(m, e) ]

\* SolowGrowthModel.production
production(p, capital) == MPower(capital, p.alpha)

\* Mutant of Solow_investment: the savings rate applied to capital, not output.
Solow_investment_of_capital(p, capital) == MScale(p.savings_rate, capital)

\* SolowGrowthModel.investment
Solow_investment(p, capital) == MScale(p.savings_rate, production(p, capital))

\* Mutant of effective_depreciation: technological progress left out.
effective_depreciation_without_tech(p) ==
    RAdd(p.population_growth, p.depreciation_rate)

\* SolowGrowthModel.effective_depreciation
effective_depreciation(p) ==
    RAdd(RAdd(p.population_growth, p.tech_growth), p.depreciation_rate)

\* q ** n for a rational q > 0 and an integer n
RECURSIVE RPowInt(_, _)
RPowInt(q, n) ==
    IF n = 0 THEN One
    ELSE IF n < 0 THEN RDiv(One, RPowInt(q, -n))
    ELSE RMul(q, RPowInt(q, n - 1))

RFloor(x) == x[1] \div x[2]

\* The exponent a product of powers gives to the base b: the sum over its
\* first n factors.
RECURSIVE exponent_of(_, _, _)
exponent_of(m, b, n) ==
    IF n = 0 THEN Zero
    ELSE RAdd(IF m.factors[n][1] = b THEN m.factors[n][2] ELSE Zero,
              exponent_of(m, b, n - 1))

bases_of(m) == { m.factors[i][1] : i \in 1 .. Len(m.factors) }

\* The rational that the whole powers of the rational bases in bs amount to.
RECURSIVE whole_powers(_, _)
whole_powers(m, bs) ==
    IF bs = {} THEN One
    ELSE RMul(IF "rat" \in DOMAIN (CHOOSE b \in bs : TRUE)
              THEN RPowInt((CHOOSE b \in bs : TRUE).rat,
                           RFloor(exponent_of(m, CHOOSE b \in bs : TRUE,
                                              Len(m.factors))))
              ELSE One,
              whole_powers(m, bs \ { CHOOSE b \in bs : TRUE }))

\* What is left of the exponent of base b once the whole powers of a rational
\* base are taken into the coefficient.
residual_exponent(m, b) ==
    IF "rat" \in DOMAIN b
    THEN RSub(exponent_of(m, b, Len(m.factors)),
              R(RFloor(exponent_of(m, b, Len(m.factors)))))
    ELSE exponent_of(m, b, Len(m.factors))

\* The value of a product of powers, written one way only: a rational
\* coefficient and, per base, one exponent (below 1 for a rational base).
value_of(m) ==
    [ c |-> RMul(m.c, whole_powers(m, bases_of(m))),
      powers |-> { bp \in { << b, residual_exponent(m, b) >> : b \in bases_of(m) } :
                     bp[2] /= Zero } ]

\* a - b of two values
value_minus(a, b) ==
    IF a.powers = b.powers
    THEN IF a.c = b.c
         THEN [ c |-> Zero, powers |-> {} ]
         ELSE [ c |-> RSub(a.c, b.c), powers |-> a.powers ]
    ELSE [ minuend |-> a, subtrahend |-> b ]

\* SolowGrowthModel.capital_change
capital_change(p, capital) ==
    value_minus(value_of(Solow_investment(p, capital)),
                value_of(MScale(effective_depreciation(p), capital)))

\* The dictionary calculate_steady_state returns (solow.py 131-146).
steady_state_dict(p, k_star, y_star) ==
    [ capital |-> k_star,
      output |-> y_star,
      consumption |-> MScale(RSub(One, p.savings_rate), y_star),
      investment |-> MScale(p.savings_rate, y_star),
      growth_rate |-> p.tech_growth ]

steady_state_output(p, k_star) ==
    steady_state_dict(p, k_star, MPower(k_star, p.alpha))

\* SolowGrowthModel.calculate_steady_state
calculate_steady_state(p) ==
    steady_state_output(p,
        MPower(MRat(RDiv(p.savings_rate,
                         RAdd(RAdd(p.population_growth, p.tech_growth),
                              p.depreciation_rate))),
               RDiv(One, RSub(One, p.alpha))))

(***************************************************************************)
(* Inputs.                                                                 *)
(***************************************************************************)

\* The IS-LM model the engine is constructed with (a valid ISLMParameters).
ISLMParams0 ==
    [ autonomous_consumption |-> R(10),
      mpc |-> Q(4, 5),
      autonomous_investment |-> R(20),
      investment_sensitivity |-> R(5),
      autonomous_money_demand |-> R(5),
      income_money_demand |-> Q(1, 5),
      interest_money_demand |-> R(10),
      government_spending |-> R(30),
      taxes |-> R(20),
      money_supply |-> R(30),
      price_level |-> R(2) ]

\* The Solow models the engine is constructed with (valid SolowParameters).
SolowParams0 ==
    [ savings_rate |-> Q(1, 5),
      depreciation_rate |-> Q(1, 20),
      population_growth |-> Q(1, 100),
      tech_growth |-> Q(1, 50),
      alpha |-> Q(1, 3),
      initial_capital |-> R(1) ]

SolowParams1 ==
    [ savings_rate |-> Q(2, 5),
      depreciation_rate |-> Q(1, 10),
      population_growth |-> R(0),
      tech_growth |-> R(0),
      alpha |-> Q(1, 2),
      initial_capital |-> R(2) ]

EngineModels ==
    { [ kind |-> "islm", params |-> ISLMParams0 ],
      [ kind |-> "solow", params |-> SolowParams0 ],
      [ kind |-> "solow", params |-> SolowParams1 ] }

SolowHorizons == 1 .. MaxHorizon
\* 21/64 is the float nearest to 1/3 that five significand bits can hold.
TimeSteps == { Q(21, 64), Q(1, 2), R(1), R(2) }
InitialCapitals == { None, MRat(R(3)) }
ShockVars == SolowFields \cup { "capital_share" }
SolowShockSizes == { Q(1, 10), Q(-1, 5), R(1) }

Horizons == 0 .. MaxHorizon
ShockTimes(h) == (-1) .. (h + 1)
ShockTypes == { "G", "T", "M", "X" }
ShockSizes == { R(-30), R(10) }
\* Shock times of a call with uneven arrays: inside and beyond the horizon.
UnevenTimes(h) == { 1, h, h + 1 }

(***************************************************************************)
(* SimulationEngine.simulate_islm (engine.py 173-282), step by step.       *)
(***************************************************************************)

\* np.zeros(n)
zeros(n) == [ i \in 0 .. (n - 1) |-> Zero ]

\* Mutant of arange: the grid starts at 1.
arange_from_one(n) == [ i \in 0 .. (n - 1) |-> i + 1 ]

\* np.arange(0, horizon + 1)
arange(n) == [ i \in 0 .. (n - 1) |-> i ]

\* "current_G += shock_size" and its two siblings: the value of G / T / M after
\* a shock of the given type and size.
\* Mutant of shocked_G: the shock is added to the engine's original G, not to
\* the running total.
shocked_G_from_base(G, type, size) ==
    IF type = "G"
    THEN RAdd(engine_model.params.government_spending, size)
    ELSE G

shocked_G(G, type, size) ==
    IF type = "G" THEN RAdd(G, size) ELSE G

shocked_T(T, type, size) ==
    IF type = "T" THEN RAdd(T, size) ELSE T

\* Mutant of shocked_M: a plain else where the code has elif shock_type == "M".
shocked_M_any_other(M, type, size) ==
    IF type \notin { "G", "T" } THEN RAdd(M, size) ELSE M

shocked_M(M, type, size) ==
    IF type = "M" THEN RAdd(M, size) ELSE M

\* The keyword arguments of ISLMParameters(...) inside the loop: G, T, M from the
\* locals, the other eight fields from self.model.params.
new_params(base, G, T, M) ==
    [ base EXCEPT !.government_spending = G, !.taxes = T, !.money_supply = M ]

\* Mutant of NextMatch: the inner loop stops after the first shock of period tt.
NextMatch_first_only(tt, idx) ==
    LET later == { j \in DOMAIN shock_times : j > idx /\ shock_times[j] = tt }
    IN  IF later = {} \/ idx /= -1 THEN -1
        ELSE CHOOSE j \in later : \A k \in later : j <= k

\* The next index the inner loop "for shock_idx, shock_time in enumerate(shock_times)"
\* stops at in period tt after index idx: the next entry with shock_time == tt.
\* -1 when the loop runs to its end without another match.
NextMatch(tt, idx) ==
    LET later == { j \in DOMAIN shock_times : j > idx /\ shock_times[j] = tt }
    IN  IF later = {} THEN -1
        ELSE CHOOSE j \in later : \A k \in later : j <= k

\* Lines 214-219: "if shock_times is None: shock_times = []" and its siblings.
\* An Optional[List] argument is {} for None and {list} for a list.
or_empty(arg) == IF arg = {} THEN << >> ELSE CHOOSE list \in arg : TRUE

\* Lines 191-225: arrays, the equilibrium of period 0 (eq), the locals.
simulate_islm_locals(name, h, times, types, sizes, eq) ==
    /\ op' = name
    /\ horizon' = h
    /\ shock_times' = or_empty(times)
    /\ shock_types' = or_empty(types)
    /\ shock_sizes' = or_empty(sizes)
    /\ income' = [ zeros(h + 1) EXCEPT ![0] = eq.income ]
    /\ interest_rate' = [ zeros(h + 1) EXCEPT ![0] = eq.interest_rate ]
    /\ consumption' = [ zeros(h + 1) EXCEPT ![0] = eq.consumption ]
    /\ investment' = [ zeros(h + 1) EXCEPT ![0] = eq.investment ]
    /\ n_equilibria' = 1
    /\ current_G' = engine_model.params.government_spending
    /\ current_T' = engine_model.params.taxes
    /\ current_M' = engine_model.params.money_supply
    /\ current_model' = engine_model
    /\ t' = 1
    /\ shock_idx' = -1
    /\ pc' = "islm_loop"
    /\ UNCHANGED << other_vars, engine_model, solow_locals, result, error >>

simulate_islm_begin(name, h, times, types, sizes) ==
    simulate_islm_locals(name, h, times, types, sizes,
                         calculate_equilibrium(engine_model.params))

\* A caller invokes simulate_islm(horizon, shock_times, shock_types, shock_sizes).
CallSimulateISLM ==
    /\ pc = "idle"
    /\ engine_model.kind = "islm"
    /\ \E h \in Horizons, k \in 0 .. MaxShocks :
         \E sched \in [ 0 .. (k - 1) -> ShockTimes(h) \X ShockTypes \X ShockSizes ] :
            simulate_islm_begin("simulate_islm", h,
                                { [ i \in 0 .. (k - 1) |-> sched[i][1] ] },
                                { [ i \in 0 .. (k - 1) |-> sched[i][2] ] },
                                { [ i \in 0 .. (k - 1) |-> sched[i][3] ] })

\* A list cut to its first n entries, or to all of them if it has fewer.
first_entries(l, n) == [ i \in { j \in DOMAIN l : j < n } |-> l[i] ]

\* A caller invokes simulate_islm with shock arrays of unequal lengths:
\* nothing in the signature (engine.py 173-179) or in the request schema
\* ties the three lengths together.  The lists hold up to MaxShocks + 1
\* entries; each is cut to a length of its own.
CallSimulateISLMUneven ==
    /\ pc = "idle"
    /\ engine_model.kind = "islm"
    /\ \E h \in Horizons :
         \E sched \in [ 0 .. MaxShocks -> UnevenTimes(h) \X { "G" } \X { R(10) } ] :
            \E kt \in 0 .. MaxShocks, ky \in 0 .. MaxShocks + 1, kz \in 0 .. MaxShocks + 1 :
               /\ ~(kt = ky /\ kt = kz)
               /\ simulate_islm_begin("simulate_islm", h,
                     { first_entries([ i \in 0 .. MaxShocks |-> sched[i][1] ], kt) },
                     { first_entries([ i \in 0 .. MaxShocks |-> sched[i][2] ], ky) },
                     { first_entries([ i \in 0 .. MaxShocks |-> sched[i][3] ], kz) })

\* A caller invokes simulate_islm(horizon) and omits the three shock arrays.
CallSimulateISLMDefault ==
    /\ pc = "idle"
    /\ engine_model.kind = "islm"
    /\ \E h \in Horizons :
         simulate_islm_begin("simulate_islm", h, {}, {}, {})

\* Mutant of impulse_shock_times: the shock is scheduled at t = 0.
impulse_shock_times_at_zero == { [ i \in {0} |-> 0 ] }

\* Line 300: shock_times=[1]
impulse_shock_times == { [ i \in {0} |-> 1 ] }

\* islm_impulse_response(shock_type, shock_size, horizon) (engine.py 284-303):
\* simulate_islm with the single shock scheduled at t = 1.
CallISLMImpulseResponse ==
    /\ pc = "idle"
    /\ engine_model.kind = "islm"
    /\ \E h \in Horizons, ty \in ShockTypes, sz \in ShockSizes :
         simulate_islm_begin("islm_impulse_response", h,
                             impulse_shock_times, { [ i \in {0} |-> ty ] },
                             { [ i \in {0} |-> sz ] })

\* ISLMModel.__init__: a model instance around a parameter set.
ISLMModel(params) == [ kind |-> "islm", params |-> params ]

\* Mutant of rebind_current_model: the model of the shocked parameters is
\* stored on the engine (self.model) as well.
rebind_engine_model(np) ==
    /\ current_model' = ISLMModel(np)
    /\ engine_model' = ISLMModel(np)

\* Line 254: current_model = ISLMModel(new_params). The local name is bound to
\* a new instance; self.model is not assigned.
rebind_current_model(np) ==
    /\ current_model' = ISLMModel(np)
    /\ UNCHANGED engine_model

\* Lines 228-254: one iteration of the inner loop whose shock_time equals t
\* (the iterations with t /= shock_time change nothing and are passed over).
ISLM_ApplyShock ==
    /\ pc = "islm_loop"
    /\ t <= horizon
    /\ NextMatch(t, shock_idx) /= -1
    /\ LET j == NextMatch(t, shock_idx)
       IN  IF j \notin DOMAIN shock_types \/ j \notin DOMAIN shock_sizes
           THEN \* shock_types[shock_idx] / shock_sizes[shock_idx] out of range
                /\ error' = [ kind |-> "IndexError", period |-> t ]
                /\ pc' = "raised"
                /\ UNCHANGED << shock_idx, current_G, current_T, current_M,
                                current_model, engine_model >>
           ELSE LET G == shocked_G(current_G, shock_types[j], shock_sizes[j])
                    T == shocked_T(current_T, shock_types[j], shock_sizes[j])
                    M == shocked_M(current_M, shock_types[j], shock_sizes[j])
                    np == new_params(engine_model.params, G, T, M)
                IN  /\ current_G' = G
                    /\ current_T' = T
                    /\ current_M' = M
                    /\ shock_idx' = j
                    /\ IF ISLMParametersValid(np)
                       THEN /\ rebind_current_model(np)
                            /\ UNCHANGED << pc, error >>
                       ELSE \* ISLMParameters(...) raises pydantic's ValidationError
                            /\ error' = [ kind |-> "ValidationError",
                                          fields |-> ISLMViolations(np),
                                          period |-> t ]
                            /\ pc' = "raised"
                            /\ UNCHANGED << current_model, engine_model >>
    /\ UNCHANGED << other_vars, op, horizon, shock_times, shock_types,
                    shock_sizes, t, income, interest_rate, consumption,
                    investment, n_equilibria, solow_locals, result >>

\* Mutant of record_equilibrium: eq recorded one index too early.
record_equilibrium_off_by_one(eq) ==
    /\ income' = [ income EXCEPT ![t - 1] = eq.income ]
    /\ interest_rate' = [ interest_rate EXCEPT ![t - 1] = eq.interest_rate ]
    /\ consumption' = [ consumption EXCEPT ![t - 1] = eq.consumption ]
    /\ investment' = [ investment EXCEPT ![t - 1] = eq.investment ]

\* Lines 258-261: eq recorded at index t.
record_equilibrium(eq) ==
    /\ income' = [ income EXCEPT ![t] = eq.income ]
    /\ interest_rate' = [ interest_rate EXCEPT ![t] = eq.interest_rate ]
    /\ consumption' = [ consumption EXCEPT ![t] = eq.consumption ]
    /\ investment' = [ investment EXCEPT ![t] = eq.investment ]

\* Mutant of period_params: a period without a shock of its own falls back to
\* the engine's original model (the shock acts as a one-period impulse).
period_params_impulse ==
    IF shock_idx = -1 THEN engine_model.params ELSE current_model.params

\* Line 257: the parameters the equilibrium of period t is computed from,
\* those of current_model.
period_params == current_model.params

\* Lines 256-261: the inner loop is over; the equilibrium of period t is
\* computed from current_model and recorded, and the outer loop moves on.
ISLM_PeriodEquilibrium ==
    /\ pc = "islm_loop"
    /\ t <= horizon
    /\ NextMatch(t, shock_idx) = -1
    /\ record_equilibrium(calculate_equilibrium(period_params))
    /\ n_equilibria' = n_equilibria + 1
    /\ t' = t + 1
    /\ shock_idx' = -1
    /\ UNCHANGED << other_vars, engine_model, pc, op, horizon, shock_times, shock_types,
                    shock_sizes, current_G, current_T, current_M, current_model,
                    solow_locals, result, error >>

\* Lines 263-282: the SimulationResult.
ISLM_Return ==
    /\ pc = "islm_loop"
    /\ t > horizon
    /\ result' = [ time |-> arange(horizon + 1),
                   states |-> [ income |-> income,
                                interest_rate |-> interest_rate,
                                consumption |-> consumption,
                                investment |-> investment ],
                   metadata |-> [ horizon |-> horizon,
                                  initial_equilibrium |->
                                      [ income |-> income[0],
                                        interest_rate |-> interest_rate[0] ],
                                  shock_times |-> shock_times,
                                  shock_types |-> shock_types,
                                  shock_sizes |-> shock_sizes,
                                  model_params |-> engine_model.params ] ]
    /\ pc' = "returned"
    /\ UNCHANGED << other_vars, engine_model, op, horizon, shock_times, shock_types,
                    shock_sizes, t, shock_idx, current_G, current_T, current_M,
                    current_model, income, interest_rate, consumption,
                    investment, n_equilibria, solow_locals, error >>

(***************************************************************************)
(* SimulationEngine.simulate_solow (engine.py 50-105) and                  *)
(* SimulationEngine.impulse_response (engine.py 107-171).                  *)
(***************************************************************************)

\* ceil(x) of a rational x
RCeil(x) == -((-x[1]) \div x[2])

\* The nearest integer of a rational x >= 0, ties to the even neighbour.
round_half_even(x) ==
    IF 2 * (x[1] % x[2]) < x[2] THEN x[1] \div x[2]
    ELSE IF 2 * (x[1] % x[2]) > x[2] THEN (x[1] \div x[2]) + 1
    ELSE IF (x[1] \div x[2]) % 2 = 0 THEN x[1] \div x[2]
    ELSE (x[1] \div x[2]) + 1

\* The spacing u of the floating-point numbers around x > 0: the power of two
\* with 2^(SignificandBits-1) * u <= x < 2^SignificandBits * u.
RECURSIVE float_ulp(_, _)
float_ulp(x, u) ==
    IF RLt(x, RMul(R(2 ^ (SignificandBits - 1)), u)) THEN float_ulp(x, RDiv(u, R(2)))
    ELSE IF RLe(RMul(R(2 ^ SignificandBits), u), x) THEN float_ulp(x, RMul(u, R(2)))
    ELSE u

float_round(x, u) == RMul(R(round_half_even(RDiv(x, u))), u)

\* The value a float operation stores for the exact result x: x rounded to
\* SignificandBits significant bits, to nearest, ties to even (IEEE 754 with
\* the exponent range left unbounded).
fl(x) ==
    IF x = Zero THEN Zero
    ELSE IF RLt(x, Zero)
    THEN RSub(Zero, float_round(RSub(Zero, x), float_ulp(RSub(Zero, x), One)))
    ELSE float_round(x, float_ulp(x, One))

\* Line 70: np.arange(0, horizon + time_step, time_step).  The stop value
\* horizon + time_step is a float sum; numpy takes ceil((stop - 0) / time_step),
\* a float quotient, as the length and fills the points 0 + i * time_step.
arange_step(h, dt) ==
    [ i \in 0 .. (RCeil(fl(RDiv(fl(RAdd(R(h), dt)), dt))) - 1) |-> fl(RMul(R(i), dt)) ]

\* odeint(dk_dt, k0, t).flatten(): the initial value at t[0], and at every later
\* grid point the integrator's value for dk/dt = model.capital_change(k), k(0) = k0.
odeint(p, k0, time) ==
    [ i \in DOMAIN time |->
        IF i = 0 THEN k0
        ELSE MSym([ odeint |-> [ dk_dt |-> p, y0 |-> k0, t |-> time[i] ] ]) ]

\* Lines 80-105: the derived paths and the SimulationResult.
solow_result(p, h, dt, k0, time, k_path) ==
    [ time |-> time,
      states |->
        [ capital |-> k_path,
          output |-> [ i \in DOMAIN k_path |-> production(p, k_path[i]) ],
          consumption |->
            [ i \in DOMAIN k_path |->
                MScale(RSub(One, p.savings_rate), production(p, k_path[i])) ],
          investment |-> [ i \in DOMAIN k_path |-> Solow_investment(p, k_path[i]) ] ],
      metadata |->
        [ horizon |-> h,
          time_step |-> dt,
          initial_capital |-> k0,
          steady_state |-> calculate_steady_state(p),
          model_params |-> p ] ]

solow_paths(p, h, dt, k0, time) ==
    solow_result(p, h, dt, k0, time, odeint(p, k0, time))

\* Mutant of solow_k0: the initial_capital argument is ignored.
solow_k0_configured(p, arg) == MRat(p.initial_capital)

\* Line 67: the starting capital.
solow_k0(p, arg) == IF arg /= None THEN arg ELSE MRat(p.initial_capital)

\* simulate_solow of an engine whose model has parameters p.
simulate_solow(p, h, dt, arg) ==
    solow_paths(p, h, dt, solow_k0(p, arg), arange_step(h, dt))

\* A caller invokes simulate_solow(horizon, time_step, initial_capital).
CallSimulateSolow ==
    /\ pc = "idle"
    /\ engine_model.kind = "solow"
    /\ \E h \in SolowHorizons, dt \in TimeSteps, k \in InitialCapitals :
         /\ horizon' = h
         /\ time_step' = dt
         /\ initial_capital' = k
    /\ op' = "simulate_solow"
    /\ sim_model' = engine_model
    /\ pc' = "solow_sim"
    /\ UNCHANGED << other_vars, engine_model, islm_locals, shock_var, shock_size, ss,
                    result, error >>

\* The body of simulate_solow, run by the engine itself or by the temporary
\* engine impulse_response builds around the shocked model.
Solow_Simulate ==
    /\ pc = "solow_sim"
    /\ result' = simulate_solow(sim_model.params, horizon, time_step, initial_capital)
    /\ pc' = IF op = "impulse_response" THEN "ir_metadata" ELSE "returned"
    /\ UNCHANGED << other_vars, engine_model, op, horizon, islm_locals, solow_locals, error >>

\* Mutant of shock_error: the message reports the shock size where the
\* attempted value belongs.
shock_error_without_value(var, size, new_value, violations) ==
    [ kind |-> "ValueError",
      shock_size |-> size,
      shock_var |-> var,
      new_value |-> size,
      constraints |-> violations ]

\* Lines 144-151: SolowParameters(**shocked_params_dict) failed; the ValueError
\* impulse_response raises in its place.
shock_error(var, size, new_value, violations) ==
    [ kind |-> "ValueError",
      shock_size |-> size,
      shock_var |-> var,
      new_value |-> new_value,
      constraints |-> violations ]

\* Lines 129-136: the shocked parameter dictionary.
shocked_params_dict(p, var, size) == [ p EXCEPT ![var] = RAdd(p[var], size) ]

\* Lines 125-155 of impulse_response(shock_var, shock_size, horizon, time_step).
CallImpulseResponse ==
    /\ pc = "idle"
    /\ engine_model.kind = "solow"
    /\ \E var \in ShockVars, size \in SolowShockSizes,
          h \in SolowHorizons, dt \in TimeSteps :
         /\ horizon' = h
         /\ time_step' = dt
         /\ shock_var' = var
         /\ shock_size' = size
         /\ ss' = calculate_steady_state(engine_model.params)
         /\ IF var \notin SolowFields
            THEN \* getattr(shocked_params, shock_var)
                 /\ error' = [ kind |-> "AttributeError", name |-> var ]
                 /\ pc' = "raised"
                 /\ UNCHANGED << sim_model, initial_capital >>
            ELSE IF ~SolowParametersValid(
                        shocked_params_dict(engine_model.params, var, size))
            THEN /\ error' = shock_error(var, size,
                                 RAdd(engine_model.params[var], size),
                                 SolowViolations(shocked_params_dict(
                                     engine_model.params, var, size)))
                 /\ pc' = "raised"
                 /\ UNCHANGED << sim_model, initial_capital >>
            ELSE /\ sim_model' =
                      [ kind |-> "solow",
                        params |-> shocked_params_dict(engine_model.params, var, size) ]
                 /\ initial_capital' =
                      calculate_steady_state(engine_model.params).capital
                 /\ pc' = "solow_sim"
                 /\ UNCHANGED error
    /\ op' = "impulse_response"
    /\ UNCHANGED << other_vars, engine_model, islm_locals, result >>

\* Lines 162-171: result.metadata.update({...}); return result.
IR_AddMetadata ==
    /\ pc = "ir_metadata"
    /\ result' = [ result EXCEPT !.metadata =
                     [ shock_var |-> shock_var,
                       shock_size |-> shock_size,
                       initial_steady_state |-> ss ] @@ @ ]
    /\ pc' = "returned"
    /\ UNCHANGED << other_vars, engine_model, op, horizon, islm_locals, solow_locals, error >>

(***************************************************************************)
(* The caller.                                                             *)
(***************************************************************************)

\* The locals of a call that is not running.
NoLocals ==
    /\ op' = "none"
    /\ horizon' = 0
    /\ shock_times' = << >>
    /\ shock_types' = << >>
    /\ shock_sizes' = << >>
    /\ t' = 0
    /\ shock_idx' = -1
    /\ current_G' = Zero
    /\ current_T' = Zero
    /\ current_M' = Zero
    /\ current_model' = None
    /\ income' = << >>
    /\ interest_rate' = << >>
    /\ consumption' = << >>
    /\ investment' = << >>
    /\ n_equilibria' = 0
    /\ time_step' = Zero
    /\ initial_capital' = None
    /\ shock_var' = ""
    /\ shock_size' = Zero
    /\ sim_model' = None
    /\ ss' = None

\* list.append(x) on a Python list held as a function over 0 .. len - 1
list_append(l, x) ==
    [ i \in 0 .. PyLen(l) |-> IF i \in DOMAIN l THEN l[i] ELSE x ]

\* Lines 214-219 and 276-278: `shock_times = shock_times or []` keeps the
\* caller's own list whenever that list is non-empty, and the metadata of the
\* result stores that very object, not a copy.  After simulate_islm has
\* returned, the caller keeps the result and appends to the list it passed:
\* the append is seen through result.metadata["shock_times"].  The frame of
\* the call is gone by then.  (islm_impulse_response passes lists it builds
\* itself, line 300, so no caller holds them.)
Caller_AppendShockTime ==
    /\ pc = "returned"
    /\ op = "simulate_islm"
    /\ PyLen(shock_times) > 0
    /\ result' = [ result EXCEPT !.metadata.shock_times = list_append(shock_times, 1) ]
    /\ pc' = "held"
    /\ NoLocals
    /\ UNCHANGED << other_vars, engine_model, error >>

\* The call has returned or raised; its frame is gone and the engine is free
\* for the next call.
Finish ==
    /\ pc \in { "returned", "held", "raised" }
    /\ pc' = "idle"
    /\ NoLocals
    /\ result' = None
    /\ error' = None
    /\ UNCHANGED << other_vars, engine_model >>

(***************************************************************************)
(* Concurrent callers of simulate_islm on one engine.  A frame holds the   *)
(* arguments and locals of one running call (engine.py 173-282); the only  *)
(* thing the calls have in common is self.model, which none of them        *)
(* assigns.                                                                *)
(***************************************************************************)

\* The threads that call into the same SimulationEngine.
Threads == { 1, 2 }

\* No call is running on the thread.
IdleFrame ==
    [ pc |-> "idle", horizon |-> 0,
      shock_times |-> << >>, shock_types |-> << >>, shock_sizes |-> << >>,
      t |-> 0, shock_idx |-> -1,
      current_G |-> Zero, current_T |-> Zero, current_M |-> Zero,
      current_model |-> None,
      income |-> << >>, interest_rate |-> << >>,
      consumption |-> << >>, investment |-> << >>,
      result |-> None, error |-> None ]

\* Lines 191-225 on a frame: arrays, the equilibrium of period 0 (eq), locals.
frame_begin(m, h, times, types, sizes, eq) ==
    [ pc |-> "islm_loop", horizon |-> h,
      shock_times |-> or_empty(times),
      shock_types |-> or_empty(types),
      shock_sizes |-> or_empty(sizes),
      t |-> 1, shock_idx |-> -1,
      current_G |-> m.params.government_spending,
      current_T |-> m.params.taxes,
      current_M |-> m.params.money_supply,
      current_model |-> m,
      income |-> [ zeros(h + 1) EXCEPT ![0] = eq.income ],
      interest_rate |-> [ zeros(h + 1) EXCEPT ![0] = eq.interest_rate ],
      consumption |-> [ zeros(h + 1) EXCEPT ![0] = eq.consumption ],
      investment |-> [ zeros(h + 1) EXCEPT ![0] = eq.investment ],
      result |-> None, error |-> None ]

frame_call(m, h, times, types, sizes) ==
    frame_begin(m, h, times, types, sizes, calculate_equilibrium(m.params))

\* Lines 228-229 on a frame: the next index of the inner loop whose
\* shock_time equals t, or -1.
frame_next_match(fr) ==
    LET later == { j \in DOMAIN fr.shock_times :
                     j > fr.shock_idx /\ fr.shock_times[j] = fr.t }
    IN  IF later = {} THEN -1
        ELSE CHOOSE j \in later : \A k \in later : j <= k

\* Lines 241-254 on a frame: ISLMParameters(...) validates np; the local
\* current_model is re-bound, or the ValidationError ends the call.
frame_rebind(fr, j, G, T, M, np) ==
    IF ISLMParametersValid(np)
    THEN [ fr EXCEPT !.current_G = G, !.current_T = T, !.current_M = M,
                     !.shock_idx = j, !.current_model = ISLMModel(np) ]
    ELSE [ fr EXCEPT !.current_G = G, !.current_T = T, !.current_M = M,
                     !.shock_idx = j, !.pc = "raised",
                     !.error = [ kind |-> "ValidationError",
                                 fields |-> ISLMViolations(np),
                                 period |-> fr.t ] ]

frame_shocked(m, fr, j, G, T, M) ==
    frame_rebind(fr, j, G, T, M, new_params(m.params, G, T, M))

\* Lines 228-254 on a frame: the iteration of the inner loop at index j.
frame_apply_shock(m, fr, j) ==
    IF j \notin DOMAIN fr.shock_types \/ j \notin DOMAIN fr.shock_sizes
    THEN [ fr EXCEPT !.pc = "raised",
                     !.error = [ kind |-> "IndexError", period |-> fr.t ] ]
    ELSE frame_shocked(m, fr, j,
             shocked_G(fr.current_G, fr.shock_types[j], fr.shock_sizes[j]),
             shocked_T(fr.current_T, fr.shock_types[j], fr.shock_sizes[j]),
             shocked_M(fr.current_M, fr.shock_types[j], fr.shock_sizes[j]))

\* Lines 258-261 on a frame: eq recorded at index t, the outer loop moves on.
frame_record(fr, eq) ==
    [ fr EXCEPT !.income[fr.t] = eq.income,
                !.interest_rate[fr.t] = eq.interest_rate,
                !.consumption[fr.t] = eq.consumption,
                !.investment[fr.t] = eq.investment,
                !.t = fr.t + 1, !.shock_idx = -1 ]

\* Line 257 on a frame: eq = working.calculate_equilibrium(), where working
\* is the model the name current_model is bound to.
frame_period(fr, working) ==
    frame_record(fr, calculate_equilibrium(working.params))

\* Lines 263-282 on a frame: the SimulationResult.
frame_return(m, fr) ==
    [ fr EXCEPT !.pc = "returned",
                !.result =
                    [ time |-> arange(fr.horizon + 1),
                      states |-> [ income |-> fr.income,
                                   interest_rate |-> fr.interest_rate,
                                   consumption |-> fr.consumption,
                                   investment |-> fr.investment ],
                      metadata |-> [ horizon |-> fr.horizon,
                                     initial_equilibrium |->
                                         [ income |-> fr.income[0],
                                           interest_rate |-> fr.interest_rate[0] ],
                                     shock_times |-> fr.shock_times,
                                     shock_types |-> fr.shock_types,
                                     shock_sizes |-> fr.shock_sizes,
                                     model_params |-> m.params ] ] ]

\* One step of the body of simulate_islm on a frame that is in its loop.
frame_step(m, fr) ==
    IF fr.t > fr.horizon THEN frame_return(m, fr)
    ELSE IF frame_next_match(fr) /= -1
         THEN frame_apply_shock(m, fr, frame_next_match(fr))
         ELSE frame_period(fr, fr.current_model)

\* simulate_islm run from frame fr to its end with nothing else running.
RECURSIVE frame_run(_, _)
frame_run(m, fr) ==
    IF fr.pc = "islm_loop" THEN frame_run(m, frame_step(m, fr)) ELSE fr

\* simulate_islm(horizon, shock_times, shock_types, shock_sizes) of an engine
\* around model m, from call to return or raise.
simulate_islm(m, h, times, types, sizes) ==
    frame_run(m, frame_call(m, h, times, types, sizes))

\* Mutant of working_model: the working model is engine-level state, so a
\* thread in its loop sees the model another running call has bound last.
working_model_shared(th) ==
    IF \E o \in Threads : o /= th /\ frames[o].pc = "islm_loop"
    THEN frames[CHOOSE o \in Threads : o /= th /\ frames[o].pc = "islm_loop"].current_model
    ELSE frames[th].current_model

\* Line 225 and 254: current_model is a local of the call of thread th.
working_model(th) == frames[th].current_model

\* The arguments a concurrent caller passes: a horizon of at least one period
\* and no shock or a single one inside the horizon.
ThreadHorizons == 1 .. MaxHorizon
ThreadShockTypes == { "G", "M" }

\* Thread th calls simulate_islm on the shared engine.
Thread_Call(th) ==
    /\ frames[th].pc = "idle"
    /\ \/ \E h \in ThreadHorizons :
            frames' = [ frames EXCEPT ![th] = frame_call(engine_model, h, {}, {}, {}) ]
       \/ \E h \in ThreadHorizons, ty \in ThreadShockTypes, sz \in ShockSizes :
          \E tm \in 1 .. h :
            frames' = [ frames EXCEPT ![th] =
                          frame_call(engine_model, h, { [ i \in {0} |-> tm ] },
                                     { [ i \in {0} |-> ty ] },
                                     { [ i \in {0} |-> sz ] }) ]
    /\ UNCHANGED << engine_vars, obj, call, http >>

\* Thread th runs one iteration of the inner loop that applies a shock.
Thread_ApplyShock(th) ==
    /\ frames[th].pc = "islm_loop"
    /\ frames[th].t <= frames[th].horizon
    /\ frame_next_match(frames[th]) /= -1
    /\ frames' = [ frames EXCEPT ![th] =
                     frame_apply_shock(engine_model, frames[th],
                                       frame_next_match(frames[th])) ]
    /\ UNCHANGED << engine_vars, obj, call, http >>

\* Thread th computes and records the equilibrium of its period t.
Thread_PeriodEquilibrium(th) ==
    /\ frames[th].pc = "islm_loop"
    /\ frames[th].t <= frames[th].horizon
    /\ frame_next_match(frames[th]) = -1
    /\ frames' = [ frames EXCEPT ![th] = frame_period(frames[th], working_model(th)) ]
    /\ UNCHANGED << engine_vars, obj, call, http >>

\* Thread th builds its SimulationResult.
Thread_Return(th) ==
    /\ frames[th].pc = "islm_loop"
    /\ frames[th].t > frames[th].horizon
    /\ frames' = [ frames EXCEPT ![th] = frame_return(engine_model, frames[th]) ]
    /\ UNCHANGED << engine_vars, obj, call, http >>

\* The call of thread th has returned or raised; its frame is gone.
Thread_Finish(th) ==
    /\ frames[th].pc \in { "returned", "raised" }
    /\ frames' = [ frames EXCEPT ![th] = IdleFrame ]
    /\ UNCHANGED << engine_vars, obj, call, http >>

(***************************************************************************)
(* Model level: the parameter sets and the methods of ISLMModel, applied   *)
(* to one object at a time.  obj is the parameter set the last successful  *)
(* construction returned (None before, and after a failed one); call is    *)
(* the last operation with its arguments and its outcome.                  *)
(***************************************************************************)

NoCall == [ op |-> "none", error |-> None ]

ISLMFields ==
    { "autonomous_consumption", "mpc", "autonomous_investment",
      "investment_sensitivity", "autonomous_money_demand",
      "income_money_demand", "interest_money_demand",
      "government_spending", "taxes", "money_supply", "price_level" }

\* Keyword arguments of ISLMParameters(...): a grid of parameter sets inside
\* the bounds, ISLMParams0 with one field moved onto or across a bound, and
\* ISLMParams0 with price_level left to its default.
BoundaryValues == { R(-1), Zero, Q(1, 20), Q(1, 10), Q(1, 2), One, R(2) }

ISLMGrid ==
    [ autonomous_consumption : { R(10) },
      mpc : { Q(1, 2), Q(4, 5) },
      autonomous_investment : { R(20) },
      investment_sensitivity : { One, R(5) },
      autonomous_money_demand : { R(5) },
      income_money_demand : { Q(1, 5), One },
      interest_money_demand : { One, R(10) },
      government_spending : { Zero, R(30) },
      taxes : { R(20) },
      money_supply : { R(30) },
      price_level : { One, R(2) } ]

ISLMKwargs ==
    ISLMGrid
    \cup { [ ISLMParams0 EXCEPT ![f] = x ] : f \in ISLMFields, x \in BoundaryValues }
    \cup { [ f \in ISLMFields \ { "price_level" } |-> ISLMParams0[f] ] }

SolowKwargs ==
    { SolowParams0, SolowParams1 }
    \cup { [ SolowParams0 EXCEPT ![f] = x ] : f \in SolowFields, x \in BoundaryValues }

\* price_level: float = Field(gt=0, ..., default=1.0)
islm_defaults(kwargs) ==
    IF "price_level" \in DOMAIN kwargs
    THEN kwargs
    ELSE [ f \in ISLMFields |->
             IF f = "price_level" THEN One ELSE kwargs[f] ]

\* pydantic's construction of a parameter set from its validated fields:
\* the object, or the ValidationError that names the violated bounds.
validated(kind, fields, violations) ==
    IF violations = {}
    THEN [ obj |-> [ kind |-> kind, fields |-> fields ], error |-> None ]
    ELSE [ obj |-> None,
           error |-> [ kind |-> "ValidationError", violations |-> violations ] ]

\* ISLMParameters(**kwargs)
ISLMParameters(kwargs) ==
    validated("ISLMParameters", islm_defaults(kwargs),
              ISLMViolations(islm_defaults(kwargs)))

\* SolowParameters(**kwargs)
SolowParameters(kwargs) ==
    validated("SolowParameters", kwargs, SolowViolations(kwargs))

construct(name, kwargs, made) ==
    /\ obj' = made.obj
    /\ call' = [ op |-> name, args |-> kwargs, error |-> made.error ]

\* A parameter set is constructed where there is none yet.
Construct_ISLMParameters ==
    /\ obj = None
    /\ \E kwargs \in ISLMKwargs :
         construct("ISLMParameters", kwargs, ISLMParameters(kwargs))
    /\ UNCHANGED << engine_vars, frames, http >>

Construct_SolowParameters ==
    /\ obj = None
    /\ \E kwargs \in SolowKwargs :
         construct("SolowParameters", kwargs, SolowParameters(kwargs))
    /\ UNCHANGED << engine_vars, frames, http >>

\* Mutant of setattr_frozen: the assignment goes through.
setattr_mutable(o, f, x) == [ o EXCEPT !.fields[f] = x ]

\* model_config = {"frozen": True}: BaseModel.__setattr__ raises before it
\* stores anything; the object after the attempt.
setattr_frozen(o, f, x) == o

\* params.<f> = x on the constructed parameter set.
Assign_Field ==
    /\ obj /= None
    /\ \E f \in DOMAIN obj.fields, x \in { Q(1, 2) } :
         /\ obj' = setattr_frozen(obj, f, x)
         /\ call' = [ op |-> "setattr", field |-> f, value |-> x,
                      before |-> obj.fields[f],
                      error |-> [ kind |-> "ValidationError",
                                  violations |-> { "frozen_instance" } ] ]
    /\ UNCHANGED << engine_vars, frames, http >>

\* Capitals capital_change is asked about: the steady state of the parameter
\* set, its initial capital, and 3.
change_capitals(p) ==
    { calculate_steady_state(p).capital, MRat(p.initial_capital), MRat(R(3)) }

\* model.capital_change(capital) on a model of the constructed Solow parameters.
Capital_Change ==
    /\ obj /= None
    /\ obj.kind = "SolowParameters"
    /\ \E k \in change_capitals(obj.fields) :
         call' = [ op |-> "capital_change",
                   capital |-> k,
                   out |-> capital_change(obj.fields, k),
                   error |-> None ]
    /\ UNCHANGED << obj, engine_vars, frames, http >>

\* ISLMModel.is_curve
is_curve(p, r) ==
    RDiv(RAdd(RSub(RAdd(RSub(p.autonomous_consumption, RMul(p.mpc, p.taxes)),
                        p.autonomous_investment),
                   RMul(p.investment_sensitivity, r)),
              p.government_spending),
         RSub(One, p.mpc))

\* ISLMModel.lm_curve
lm_curve(p, Y) ==
    RDiv(RSub(RAdd(p.autonomous_money_demand, RMul(p.income_money_demand, Y)),
              real_money_supply(p)),
         p.interest_money_demand)

\* ISLMModel(obj).calculate_equilibrium()
Calculate_Equilibrium ==
    /\ obj /= None
    /\ obj.kind = "ISLMParameters"
    /\ call' = [ op |-> "calculate_equilibrium",
                 out |-> calculate_equilibrium(obj.fields),
                 error |-> None ]
    /\ UNCHANGED << obj, engine_vars, frames, http >>

\* Mutant of policy_deltas: the differences are taken the other way round.
policy_deltas_reversed(new_equilibrium, original) ==
    [ delta_income |-> RSub(original.income, new_equilibrium.income),
      delta_interest_rate |->
          RSub(original.interest_rate, new_equilibrium.interest_rate),
      delta_consumption |-> RSub(original.consumption, new_equilibrium.consumption),
      delta_investment |-> RSub(original.investment, new_equilibrium.investment) ]

\* islm.py 310-317 and 342-349: the returned dictionary of changes.
policy_deltas(new_equilibrium, original) ==
    [ delta_income |-> RSub(new_equilibrium.income, original.income),
      delta_interest_rate |->
          RSub(new_equilibrium.interest_rate, original.interest_rate),
      delta_consumption |-> RSub(new_equilibrium.consumption, original.consumption),
      delta_investment |-> RSub(new_equilibrium.investment, original.investment) ]

\* Mutant of fiscal_new_params: the change in taxes is dropped.
fiscal_new_params_without_taxes(p, delta_g, delta_t) ==
    [ p EXCEPT !.government_spending = RAdd(p.government_spending, delta_g) ]

\* islm.py 301-306: self.params.model_copy(update={...}).  model_copy puts
\* the updated values into the copy as they are; no validator runs.
fiscal_new_params(p, delta_g, delta_t) ==
    [ p EXCEPT !.government_spending = RAdd(p.government_spending, delta_g),
               !.taxes = RAdd(p.taxes, delta_t) ]

\* ISLMModel.fiscal_expansion_effect
fiscal_expansion_effect(p, delta_g, delta_t) ==
    policy_deltas(calculate_equilibrium(fiscal_new_params(p, delta_g, delta_t)),
                  calculate_equilibrium(p))

\* islm.py 336-338: self.params.model_copy(update={"money_supply": ...})
monetary_new_params(p, delta_m) ==
    [ p EXCEPT !.money_supply = RAdd(p.money_supply, delta_m) ]

\* ISLMModel.monetary_expansion_effect
monetary_expansion_effect(p, delta_m) ==
    policy_deltas(calculate_equilibrium(monetary_new_params(p, delta_m)),
                  calculate_equilibrium(p))

\* The policy changes a caller asks for.
DeltaG == { R(-40), Zero, R(10) }
DeltaT == { R(-30), Zero, R(10) }
DeltaM == { R(-40), R(10) }

\* ISLMModel(obj).fiscal_expansion_effect(delta_g, delta_t)
Fiscal_Expansion_Effect ==
    /\ obj /= None
    /\ obj.kind = "ISLMParameters"
    /\ \E delta_g \in DeltaG, delta_t \in DeltaT :
         call' = [ op |-> "fiscal_expansion_effect",
                   delta_g |-> delta_g, delta_t |-> delta_t,
                   new_params |-> fiscal_new_params(obj.fields, delta_g, delta_t),
                   out |-> fiscal_expansion_effect(obj.fields, delta_g, delta_t),
                   error |-> None ]
    /\ UNCHANGED << obj, engine_vars, frames, http >>

\* ISLMModel(obj).monetary_expansion_effect(delta_m)
Monetary_Expansion_Effect ==
    /\ obj /= None
    /\ obj.kind = "ISLMParameters"
    /\ \E delta_m \in DeltaM :
         call' = [ op |-> "monetary_expansion_effect",
                   delta_m |-> delta_m,
                   new_params |-> monetary_new_params(obj.fields, delta_m),
                   out |-> monetary_expansion_effect(obj.fields, delta_m),
                   error |-> None ]
    /\ UNCHANGED << obj, engine_vars, frames, http >>

(***************************************************************************)
(* The HTTP API (apps/api/src/main.py, routes/solow.py, routes/islm.py and *)
(* the request schemas of apps/api/src/schemas).                           *)
(***************************************************************************)

\* SimulationEngine.impulse_response(shock_var, shock_size, horizon,
\* time_step) of an engine whose model has parameters p, from call to return
\* or raise (engine.py 107-171).
impulse_response(p, var, size, h, dt) ==
    IF var \notin SolowFields
    THEN [ error |-> [ kind |-> "AttributeError", name |-> var ], out |-> None ]
    ELSE IF ~SolowParametersValid(shocked_params_dict(p, var, size))
    THEN [ error |-> shock_error(var, size, RAdd(p[var], size),
                                 SolowViolations(shocked_params_dict(p, var, size))),
           out |-> None ]
    ELSE [ error |-> None,
           out |-> [ simulate_solow(shocked_params_dict(p, var, size), h, dt,
                                    calculate_steady_state(p).capital)
                     EXCEPT !.metadata =
                         [ shock_var |-> var,
                           shock_size |-> size,
                           initial_steady_state |-> calculate_steady_state(p) ] @@ @ ] ]

\* SimulationEngine.islm_impulse_response(shock_type, shock_size, horizon)
islm_impulse_response(m, ty, sz, h) ==
    simulate_islm(m, h, impulse_shock_times, { [ i \in {0} |-> ty ] },
                  { [ i \in {0} |-> sz ] })

\* Mutant of http_exception: the error surfaces as an internal server error.
http_exception_500(e) == [ status |-> 500, detail |-> e ]

\* except Exception as e: raise HTTPException(status_code=400, detail=str(e))
http_exception(e) == [ status |-> 400, detail |-> e ]

\* FastAPI's answers: the handler's return value, a request body the request
\* model rejects, a path no route matches.
response_ok(body) == [ status |-> 200, body |-> body ]
response_unprocessable(violations) == [ status |-> 422, detail |-> violations ]
response_not_found == [ status |-> 404, detail |-> "Not Found" ]

\* try: <body> except Exception: the outcome of the body, as a response.
try_except(outcome) ==
    IF outcome.error /= None
    THEN http_exception(outcome.error)
    ELSE response_ok(outcome.out)

\* The outcome of a try body that got as far as its return statement.
returns(value) == [ error |-> None, out |-> value ]

\* schemas/solow.py: SolowParametersRequest, and horizon (gt=0, le=500) and
\* time_step (gt=0, le=1) of SimulationRequest and ImpulseResponseRequest.
solow_parameters_violations(body) ==
    [ parameters |-> SolowViolations(body), horizon |-> FALSE, time_step |-> FALSE ]

solow_request_violations(body) ==
    [ parameters |-> SolowViolations(body.parameters),
      horizon |-> ~(body.horizon > 0 /\ body.horizon <= 500),
      time_step |-> ~(RLt(Zero, body.time_step) /\ RLe(body.time_step, One)) ]

\* schemas/islm.py: ISLMParametersRequest, PolicyEffectRequest (no bounds on
\* the deltas), and horizon (gt=0, le=100) of SimulationRequest and
\* ImpulseResponseRequest.
islm_parameters_violations(body) ==
    [ parameters |-> ISLMViolations(islm_defaults(body)),
      horizon |-> FALSE, time_step |-> FALSE ]

islm_policy_violations(body) ==
    [ parameters |-> ISLMViolations(islm_defaults(body.parameters)),
      horizon |-> FALSE, time_step |-> FALSE ]

islm_request_violations(body) ==
    [ parameters |-> ISLMViolations(islm_defaults(body.parameters)),
      horizon |-> ~(body.horizon > 0 /\ body.horizon <= 100),
      time_step |-> FALSE ]

request_valid(v) == v.parameters = {} /\ ~v.horizon /\ ~v.time_step

\* The core object a handler builds from the dumped request parameters, or
\* the outcome of the try body if that construction raised.
core_params(made, outcome) ==
    IF made.error /= None THEN [ error |-> made.error, out |-> None ] ELSE outcome

\* The response body of the Solow simulation routes (routes/solow.py 66-73).
solow_simulation_response(res) ==
    [ time |-> res.time,
      capital |-> res.states.capital,
      output |-> res.states.output,
      consumption |-> res.states.consumption,
      investment |-> res.states.investment,
      metadata |-> res.metadata ]

\* The response body of the IS-LM simulation routes (routes/islm.py 117-124).
islm_simulation_response(res) ==
    [ time |-> res.time,
      income |-> res.states.income,
      interest_rate |-> res.states.interest_rate,
      consumption |-> res.states.consumption,
      investment |-> res.states.investment,
      metadata |-> res.metadata ]

\* The try body of a simulation handler: the engine call's outcome, turned
\* into the response body if the call returned.
simulation_outcome(fr) ==
    IF fr.error /= None
    THEN [ error |-> fr.error, out |-> None ]
    ELSE returns(islm_simulation_response(fr.result))

solow_impulse_outcome(o) ==
    IF o.error /= None THEN o ELSE returns(solow_simulation_response(o.out))

\* routes/solow.py: POST /api/solow/steady-state
solow_steady_state_route(body) ==
    IF ~request_valid(solow_parameters_violations(body))
    THEN response_unprocessable(solow_parameters_violations(body))
    ELSE try_except(core_params(SolowParameters(body),
                                returns(calculate_steady_state(body))))

\* routes/solow.py: POST /api/solow/simulate
solow_simulate_route(body) ==
    IF ~request_valid(solow_request_violations(body))
    THEN response_unprocessable(solow_request_violations(body))
    ELSE try_except(core_params(SolowParameters(body.parameters),
             returns(solow_simulation_response(
                 simulate_solow(body.parameters, body.horizon, body.time_step,
                                body.initial_capital)))))

\* routes/solow.py: POST /api/solow/impulse-response
solow_impulse_response_route(body) ==
    IF ~request_valid(solow_request_violations(body))
    THEN response_unprocessable(solow_request_violations(body))
    ELSE try_except(core_params(SolowParameters(body.parameters),
             solow_impulse_outcome(
                 impulse_response(body.parameters, body.shock_var, body.shock_size,
                                  body.horizon, body.time_step))))

\* routes/islm.py: POST /api/islm/equilibrium
islm_equilibrium_route(body) ==
    IF ~request_valid(islm_parameters_violations(body))
    THEN response_unprocessable(islm_parameters_violations(body))
    ELSE try_except(core_params(ISLMParameters(body),
             returns(calculate_equilibrium(islm_defaults(body)))))

\* routes/islm.py: POST /api/islm/fiscal-effect
islm_fiscal_effect_route(body) ==
    IF ~request_valid(islm_policy_violations(body))
    THEN response_unprocessable(islm_policy_violations(body))
    ELSE try_except(core_params(ISLMParameters(body.parameters),
             returns(fiscal_expansion_effect(islm_defaults(body.parameters),
                                             body.delta_g, body.delta_t))))

\* routes/islm.py: POST /api/islm/monetary-effect
islm_monetary_effect_route(body) ==
    IF ~request_valid(islm_policy_violations(body))
    THEN response_unprocessable(islm_policy_violations(body))
    ELSE try_except(core_params(ISLMParameters(body.parameters),
             returns(monetary_expansion_effect(islm_defaults(body.parameters),
                                               body.delta_m))))

\* routes/islm.py: POST /api/islm/simulate
islm_simulate_route(body) ==
    IF ~request_valid(islm_request_violations(body))
    THEN response_unprocessable(islm_request_violations(body))
    ELSE try_except(core_params(ISLMParameters(body.parameters),
             simulation_outcome(
                 simulate_islm(ISLMModel(islm_defaults(body.parameters)),
                               body.horizon, { body.shock_times },
                               { body.shock_types }, { body.shock_sizes }))))

\* routes/islm.py: POST /api/islm/impulse-response
islm_impulse_response_route(body) ==
    IF ~request_valid(islm_request_violations(body))
    THEN response_unprocessable(islm_request_violations(body))
    ELSE try_except(core_params(ISLMParameters(body.parameters),
             simulation_outcome(
                 islm_impulse_response(ISLMModel(islm_defaults(body.parameters)),
                                       body.shock_type, body.shock_size,
                                       body.horizon))))

\* routes/solow.py: router = APIRouter(prefix="/api/solow") and its routes
solow_router(req) ==
    CASE req.method = "POST" /\ req.path = "/api/solow/steady-state" ->
             solow_steady_state_route(req.body)
      [] req.method = "POST" /\ req.path = "/api/solow/simulate" ->
             solow_simulate_route(req.body)
      [] req.method = "POST" /\ req.path = "/api/solow/impulse-response" ->
             solow_impulse_response_route(req.body)
      [] req.method = "GET" /\ req.path = "/api/solow/health" ->
             response_ok([ status |-> "healthy", model |-> "solow" ])
      [] OTHER -> response_not_found

\* routes/islm.py: router = APIRouter(prefix="/api/islm") and its routes
islm_router(req) ==
    CASE req.method = "POST" /\ req.path = "/api/islm/equilibrium" ->
             islm_equilibrium_route(req.body)
      [] req.method = "POST" /\ req.path = "/api/islm/fiscal-effect" ->
             islm_fiscal_effect_route(req.body)
      [] req.method = "POST" /\ req.path = "/api/islm/monetary-effect" ->
             islm_monetary_effect_route(req.body)
      [] req.method = "POST" /\ req.path = "/api/islm/simulate" ->
             islm_simulate_route(req.body)
      [] req.method = "POST" /\ req.path = "/api/islm/impulse-response" ->
             islm_impulse_response_route(req.body)
      [] req.method = "GET" /\ req.path = "/api/islm/health" ->
             response_ok([ status |-> "healthy", model |-> "islm" ])
      [] OTHER -> response_not_found

\* main.py: the application.  It includes solow_router (line 25) and defines
\* GET / and GET /health; no other router is imported or included.
app(req) ==
    CASE req.method = "GET" /\ req.path = "/" ->
             response_ok([ message |-> "Economic Models API",
                           version |-> "0.1.0", docs |-> "/docs" ])
      [] req.method = "GET" /\ req.path = "/health" ->
             response_ok([ status |-> "healthy" ])
      [] OTHER -> solow_router(req)

\* Requests.
Get(path) == [ method |-> "GET", path |-> path, body |-> None ]
Post(path, body) == [ method |-> "POST", path |-> path, body |-> body ]

SolowBodies == { SolowParams0, [ SolowParams0 EXCEPT !.savings_rate = R(2) ] }

ISLMBodies ==
    { ISLMParams0,
      [ ISLMParams0 EXCEPT !.mpc = R(2) ],
      [ f \in ISLMFields \ { "price_level" } |-> ISLMParams0[f] ] }

\* Shock arrays of a request: up to MaxShocks shocks in periods 1 and 2, the
\* three lists of equal length or shock_types one entry short.
RequestShocks ==
    UNION { { [ shock_times |-> [ i \in 0 .. (k - 1) |-> sched[i][1] ],
                shock_types |-> [ i \in 0 .. (k - 1 - short) |-> sched[i][2] ],
                shock_sizes |-> [ i \in 0 .. (k - 1) |-> sched[i][3] ] ] :
                short \in { 0, 1 },
                sched \in [ 0 .. (k - 1) -> (1 .. 2) \X { "G", "T" } \X ShockSizes ] } :
            k \in 0 .. MaxShocks }

SolowRequests ==
    { Get("/api/solow/health") }
    \cup { Post("/api/solow/steady-state", b) : b \in SolowBodies }
    \cup { Post("/api/solow/simulate",
                [ parameters |-> b, horizon |-> h, time_step |-> dt,
                  initial_capital |-> k ]) :
             b \in SolowBodies, h \in 0 .. MaxHorizon,
             dt \in { Q(1, 2), R(2) }, k \in InitialCapitals }
    \cup { Post("/api/solow/impulse-response",
                [ parameters |-> b, shock_var |-> var, shock_size |-> size,
                  horizon |-> h, time_step |-> Q(1, 2) ]) :
             b \in SolowBodies, var \in { "savings_rate", "capital_share" },
             size \in { Q(1, 10), R(1) }, h \in 0 .. 1 }

ISLMRequests ==
    { Get("/api/islm/health") }
    \cup { Post("/api/islm/equilibrium", b) : b \in ISLMBodies }
    \cup { Post("/api/islm/fiscal-effect",
                [ parameters |-> b, delta_g |-> dg, delta_t |-> dt, delta_m |-> Zero ]) :
             b \in ISLMBodies, dg \in { R(-40), R(10) }, dt \in { Zero, R(10) } }
    \cup { Post("/api/islm/monetary-effect",
                [ parameters |-> b, delta_g |-> Zero, delta_t |-> Zero, delta_m |-> dm ]) :
             b \in ISLMBodies, dm \in DeltaM }
    \cup { Post("/api/islm/simulate",
                [ parameters |-> b, horizon |-> h,
                  shock_times |-> sh.shock_times, shock_types |-> sh.shock_types,
                  shock_sizes |-> sh.shock_sizes ]) :
             b \in { ISLMParams0, [ ISLMParams0 EXCEPT !.mpc = R(2) ] },
             h \in 0 .. MaxHorizon,
             sh \in RequestShocks }
    \cup { Post("/api/islm/impulse-response",
                [ parameters |-> b, shock_type |-> ty, shock_size |-> sz,
                  horizon |-> h ]) :
             b \in ISLMBodies, ty \in { "G", "T", "X" }, sz \in ShockSizes,
             h \in 0 .. MaxHorizon }

Requests ==
    { Get("/"), Get("/health"), Get("/api/unknown") }
    \cup SolowRequests \cup ISLMRequests

\* A client with no request outstanding sends one to the application of
\* main.py.
App_Request ==
    /\ http = None
    /\ \E req \in Requests :
         http' = [ via |-> "app", request |-> req, response |-> app(req) ]
    /\ UNCHANGED << engine_vars, frames, obj, call >>

\* A request reaches a router's route: FastAPI validates the body against the
\* handler's request model and calls the handler.
Router_Request ==
    /\ http = None
    /\ \/ \E req \in SolowRequests :
            http' = [ via |-> "solow_router", request |-> req,
                      response |-> solow_router(req) ]
       \/ \E req \in ISLMRequests :
            http' = [ via |-> "islm_router", request |-> req,
                      response |-> islm_router(req) ]
    /\ UNCHANGED << engine_vars, frames, obj, call >>

\* The client has read the response; the exchange is over.
Response_Delivered ==
    /\ http /= None
    /\ http' = None
    /\ UNCHANGED << engine_vars, frames, obj, call >>

Init ==
    /\ engine_model \in EngineModels
    /\ pc = "idle"
    /\ op = "none"
    /\ horizon = 0
    /\ shock_times = << >>
    /\ shock_types = << >>
    /\ shock_sizes = << >>
    /\ t = 0
    /\ shock_idx = -1
    /\ current_G = Zero
    /\ current_T = Zero
    /\ current_M = Zero
    /\ current_model = None
    /\ income = << >>
    /\ interest_rate = << >>
    /\ consumption = << >>
    /\ investment = << >>
    /\ n_equilibria = 0
    /\ time_step = Zero
    /\ initial_capital = None
    /\ shock_var = ""
    /\ shock_size = Zero
    /\ sim_model = None
    /\ ss = None
    /\ result = None
    /\ error = None
    /\ frames = [ th \in Threads |-> IdleFrame ]
    /\ obj = None
    /\ call = NoCall
    /\ http = None

Next ==
    \/ CallSimulateISLM
    \/ CallSimulateISLMDefault
    \/ CallSimulateISLMUneven
    \/ CallISLMImpulseResponse
    \/ ISLM_ApplyShock
    \/ ISLM_PeriodEquilibrium
    \/ ISLM_Return
    \/ CallSimulateSolow
    \/ CallImpulseResponse
    \/ Solow_Simulate
    \/ IR_AddMetadata
    \/ Caller_AppendShockTime
    \/ Finish

Spec == Init /\ [][Next]_vars

\* Two threads call simulate_islm on one IS-LM engine; their steps interleave.
InitThreads == Init /\ engine_model.kind = "islm"

NextThreads ==
    \E th \in Threads :
        \/ Thread_Call(th)
        \/ Thread_ApplyShock(th)
        \/ Thread_PeriodEquilibrium(th)
        \/ Thread_Return(th)
        \/ Thread_Finish(th)

SpecThreads == InitThreads /\ [][NextThreads]_vars

\* The operations on parameter sets and on ISLMModel; no engine takes part.
InitModels == Init /\ engine_model.params = ISLMParams0

NextModels ==
    \/ Construct_ISLMParameters
    \/ Construct_SolowParameters
    \/ Assign_Field
    \/ Capital_Change
    \/ Calculate_Equilibrium
    \/ Fiscal_Expansion_Effect
    \/ Monetary_Expansion_Effect

SpecModels == InitModels /\ [][NextModels]_vars

\* The HTTP API on its own.
InitApi == Init /\ engine_model.params = ISLMParams0

NextApi ==
    \/ App_Request
    \/ Router_Request
    \/ Response_Delivered

SpecApi == InitApi /\ [][NextApi]_vars

(***************************************************************************)
(* Properties of simulate_islm.                                            *)
(***************************************************************************)

InISLM == op \in { "simulate_islm", "islm_impulse_response" }

\* The periods whose equilibrium the running (or finished) call has recorded.
Recorded == IF InISLM THEN { tau \in 0 .. horizon : tau < t } ELSE {}

Applied(i) == 1 <= shock_times[i] /\ shock_times[i] <= horizon

RECURSIVE SumUpTo(_, _, _)
SumUpTo(type, tau, i) ==
    IF i < 0 THEN Zero
    ELSE RAdd(SumUpTo(type, tau, i - 1),
              IF shock_types[i] = type /\ 1 <= shock_times[i] /\ shock_times[i] <= tau
              THEN shock_sizes[i] ELSE Zero)

\* The sum of the sizes of all shocks of the type with 1 <= shock time <= tau.
SumShocks(type, tau) == SumUpTo(type, tau, PyLen(shock_times) - 1)

\* The parameters of period tau: the engine's, with G, T and M shifted by the
\* shocks up to tau.
FreshParams(tau) ==
    [ engine_model.params EXCEPT
        !.government_spending = RAdd(@, SumShocks("G", tau)),
        !.taxes = RAdd(@, SumShocks("T", tau)),
        !.money_supply = RAdd(@, SumShocks("M", tau)) ]

RECURSIVE SumBefore(_, _, _)
SumBefore(type, j, i) ==
    IF i < 0 THEN Zero
    ELSE RAdd(SumBefore(type, j, i - 1),
              IF /\ shock_types[i] = type
                 /\ 1 <= shock_times[i]
                 /\ \/ shock_times[i] < shock_times[j]
                    \/ shock_times[i] = shock_times[j] /\ i <= j
              THEN shock_sizes[i] ELSE Zero)

\* The parameters right after shock j, with every shock the loop handles before it.
ParamsAfter(j) ==
    [ engine_model.params EXCEPT
        !.government_spending = RAdd(@, SumBefore("G", j, PyLen(shock_times) - 1)),
        !.taxes = RAdd(@, SumBefore("T", j, PyLen(shock_times) - 1)),
        !.money_supply = RAdd(@, SumBefore("M", j, PyLen(shock_times) - 1)) ]

InBounds(p) ==
    /\ RLe(Zero, p.government_spending)
    /\ RLe(Zero, p.taxes)
    /\ RLt(Zero, p.money_supply)

\* The schedule has a type and a size for every time, every type is G, T or M,
\* and G, T, M stay in bounds after each shock.
AllTypesKnown ==
    /\ DOMAIN shock_types = DOMAIN shock_times
    /\ DOMAIN shock_sizes = DOMAIN shock_times
    /\ \A i \in DOMAIN shock_times : shock_types[i] \in { "G", "T", "M" }

KeepsBounds == \A j \in DOMAIN shock_times : Applied(j) => InBounds(ParamsAfter(j))

SameAsEquilibrium(tau, eq) ==
    /\ income[tau] = eq.income
    /\ interest_rate[tau] = eq.interest_rate
    /\ consumption[tau] = eq.consumption
    /\ investment[tau] = eq.investment

\* C1: with a schedule of G/T/M shocks that keeps G >= 0, T >= 0, M > 0,
\* simulate_islm raises nothing, and what it records at each period tau >= 1 is
\* the equilibrium of a fresh model whose G, T, M are the originals plus the
\* sum of all shocks of that type with 1 <= time <= tau (shocks are additive
\* and cumulative, each period a full re-solve).
C1_CumulativeShocks ==
    (InISLM /\ AllTypesKnown /\ KeepsBounds) =>
        /\ error = None
        /\ \A tau \in Recorded \ {0} :
             SameAsEquilibrium(tau, calculate_equilibrium(FreshParams(tau)))

\* Two G shocks at different times have both been applied and recorded.
C1_Witness ==
    /\ pc = "returned"
    /\ op = "simulate_islm"
    /\ AllTypesKnown /\ KeepsBounds
    /\ horizon = 2
    /\ PyLen(shock_times) = 2
    /\ shock_times[0] = 1 /\ shock_times[1] = 2
    /\ shock_types[0] = "G" /\ shock_types[1] = "G"
    /\ shock_sizes[0] = R(10) /\ shock_sizes[1] = R(10)
    /\ current_G = R(50)
    /\ RLt(income[0], income[1]) /\ RLt(income[1], income[2])

\* C2: simulate_islm without shocks returns constant series: every index
\* 0..horizon holds the single-period equilibrium of the engine's model.
C2_NoShocksConstant ==
    (pc = "returned" /\ InISLM /\ PyLen(result.metadata.shock_times) = 0) =>
        \A i \in 0 .. horizon :
            /\ result.states.income[i] =
                   calculate_equilibrium(engine_model.params).income
            /\ result.states.interest_rate[i] =
                   calculate_equilibrium(engine_model.params).interest_rate
            /\ result.states.consumption[i] =
                   calculate_equilibrium(engine_model.params).consumption
            /\ result.states.investment[i] =
                   calculate_equilibrium(engine_model.params).investment

\* A call without shocks has returned a series of three periods.
C2_Witness ==
    /\ pc = "returned"
    /\ op = "simulate_islm"
    /\ PyLen(shock_times) = 0
    /\ horizon = 2
    /\ DOMAIN result.states.income = 0 .. 2
    /\ result.states.income[2] /= Zero

\* The call ran one shock, of positive size, to G, at a time in 1..horizon.
SinglePositiveG ==
    /\ InISLM
    /\ DOMAIN shock_times = {0}
    /\ DOMAIN shock_types = {0}
    /\ DOMAIN shock_sizes = {0}
    /\ shock_types[0] = "G"
    /\ RLt(Zero, shock_sizes[0])
    /\ Applied(0)

\* C3: permanence.  After a single positive G shock at t0, income and the
\* interest rate equal the initial equilibrium for all t < t0, are strictly
\* higher at t0, and keep that level for every t from t0 through horizon.
C3_Permanence ==
    (pc = "returned" /\ SinglePositiveG) =>
        /\ \A i \in 0 .. (shock_times[0] - 1) :
             /\ result.states.income[i] =
                    calculate_equilibrium(engine_model.params).income
             /\ result.states.interest_rate[i] =
                    calculate_equilibrium(engine_model.params).interest_rate
        /\ RLt(result.states.income[shock_times[0] - 1],
               result.states.income[shock_times[0]])
        /\ RLt(result.states.interest_rate[shock_times[0] - 1],
               result.states.interest_rate[shock_times[0]])
        /\ \A i \in shock_times[0] .. horizon :
             /\ result.states.income[i] = result.states.income[shock_times[0]]
             /\ result.states.interest_rate[i] =
                    result.states.interest_rate[shock_times[0]]

\* A single positive G shock at t0 = 1 with a period after it.
C3_Witness ==
    /\ pc = "returned"
    /\ SinglePositiveG
    /\ shock_times[0] = 1
    /\ horizon = 2
    /\ RLt(result.states.income[0], result.states.income[2])

\* C4: when period t's equilibrium is computed, every shock scheduled at t (and
\* before) is already in the working G, T, M and in the working model, and a
\* shock is only ever applied in the period it is scheduled at.
C4_AllShocksBeforeEquilibrium ==
    [][ /\ (pc = "islm_loop" /\ AllTypesKnown /\ t' = t + 1) =>
            /\ current_G = FreshParams(t).government_spending
            /\ current_T = FreshParams(t).taxes
            /\ current_M = FreshParams(t).money_supply
            /\ current_model.params = FreshParams(t)
            /\ income'[t] = calculate_equilibrium(FreshParams(t)).income
        /\ (pc = "islm_loop" /\ shock_idx' /= shock_idx /\ shock_idx' /= -1) =>
            shock_times[shock_idx'] = t ]_vars

\* Two shocks scheduled at the same time have been applied and the period recorded.
C4_Witness ==
    /\ pc = "islm_loop"
    /\ AllTypesKnown
    /\ PyLen(shock_times) = 2
    /\ shock_times[0] = 1 /\ shock_times[1] = 1
    /\ shock_types[0] = "G" /\ shock_types[1] = "T"
    /\ t = 2
    /\ current_G /= engine_model.params.government_spending
    /\ current_T /= engine_model.params.taxes

\* C5: a shock that drives G or T below 0, or M to a value <= 0, makes
\* simulate_islm fail before any equilibrium has been computed.
C5_FailFast ==
    (InISLM /\ pc = "raised" /\ error.kind = "ValidationError") => n_equilibria = 0

(***************************************************************************)
(* Properties of impulse_response and of the results.                      *)
(***************************************************************************)

\* The bounds of the Solow field f that the value x violates (solow.py 29-34).
ViolatedBounds(f, x) ==
    CASE f \in { "savings_rate", "depreciation_rate", "alpha" } ->
             { b \in { "gt 0", "lt 1" } :
                 \/ b = "gt 0" /\ RLe(x, Zero)
                 \/ b = "lt 1" /\ RLe(One, x) }
      [] f \in { "population_growth", "tech_growth" } ->
             { b \in { "ge 0", "lt 0.1" } :
                 \/ b = "ge 0" /\ RLt(x, Zero)
                 \/ b = "lt 0.1" /\ RLe(Q(1, 10), x) }
      [] OTHER -> { b \in { "gt 0" } : RLe(x, Zero) }

\* impulse_response was called with a field of the parameter set and a shock
\* that takes the field out of its bound.
OutOfBoundShock ==
    /\ op = "impulse_response"
    /\ shock_var \in SolowFields
    /\ ViolatedBounds(shock_var, RAdd(engine_model.params[shock_var], shock_size)) /= {}

\* C6: an out-of-bound shock makes impulse_response raise a ValueError that
\* names the variable, the shock size, the attempted value and the violated
\* constraint, before simulate_solow runs: there is no shocked engine and no
\* SimulationResult.
C6_OutOfBoundShockError ==
    OutOfBoundShock =>
        /\ pc = "raised"
        /\ error.kind = "ValueError"
        /\ error.shock_var = shock_var
        /\ error.shock_size = shock_size
        /\ error.new_value = RAdd(engine_model.params[shock_var], shock_size)
        /\ error.constraints =
               { [ field |-> shock_var, constraint |-> b ] :
                   b \in ViolatedBounds(shock_var, error.new_value) }
        /\ sim_model = None
        /\ result = None

\* population_growth 0 shocked by 0.1 reaches the excluded bound 0.1.
C6_Witness ==
    /\ OutOfBoundShock
    /\ pc = "raised"
    /\ shock_var = "population_growth"
    /\ error.new_value = Q(1, 10)
    /\ error.constraints = { [ field |-> "population_growth", constraint |-> "lt 0.1" ] }

\* C7: a shock_var that is no field of the parameter set fails with the same
\* descriptive validation error (ValueError) as an out-of-bound shock.
C7_UnknownFieldSameError ==
    (op = "impulse_response" /\ shock_var \notin SolowFields /\ pc = "raised") =>
        error.kind = "ValueError"

\* The parameters impulse_response simulates under.
ShockedParams ==
    [ f \in SolowFields |->
        IF f = shock_var THEN RAdd(engine_model.params[f], shock_size)
        ELSE engine_model.params[f] ]

\* C8: the result of impulse_response starts at the steady-state capital of the
\* engine's own model, whatever its configured initial_capital; the path is that
\* of a model whose only changed field is shock_var (old value + shock_size);
\* metadata carries shock_var, shock_size and the pre-shock steady state.
C8_ImpulseFromSteadyState ==
    (pc = "returned" /\ op = "impulse_response") =>
        /\ result.states.capital[0] = calculate_steady_state(engine_model.params).capital
        /\ result.metadata.initial_capital = result.states.capital[0]
        /\ result.metadata.model_params = ShockedParams
        /\ \A i \in DOMAIN result.time \ {0} :
             result.states.capital[i] =
                 MSym([ odeint |-> [ dk_dt |-> ShockedParams,
                                     y0 |-> result.states.capital[0],
                                     t |-> result.time[i] ] ])
        /\ \A i \in DOMAIN result.time :
             result.states.output[i] = MPower(result.states.capital[i], ShockedParams.alpha)
        /\ result.metadata.steady_state = calculate_steady_state(ShockedParams)
        /\ result.metadata.shock_var = shock_var
        /\ result.metadata.shock_size = shock_size
        /\ result.metadata.initial_steady_state =
               calculate_steady_state(engine_model.params)

\* A savings-rate shock from a model whose configured initial capital is not
\* its steady-state capital.
C8_Witness ==
    /\ pc = "returned"
    /\ op = "impulse_response"
    /\ shock_var = "savings_rate"
    /\ shock_size = Q(1, 10)
    /\ MRat(engine_model.params.initial_capital) /= result.states.capital[0]
    /\ PyLen(result.time) >= 3

\* C9: every returned SimulationResult has a time sequence that starts at 0 and
\* is strictly increasing, and every state sequence has the indices of time;
\* the grid of simulate_islm is exactly 0, 1, ..., horizon.
C9_ResultShape ==
    (pc = "returned") =>
        /\ 0 \in DOMAIN result.time
        /\ DOMAIN result.time = 0 .. (PyLen(result.time) - 1)
        /\ IF InISLM
           THEN /\ result.time = [ i \in 0 .. horizon |-> i ]
                /\ \A name \in { "income", "interest_rate", "consumption", "investment" } :
                     DOMAIN result.states[name] = DOMAIN result.time
           ELSE /\ result.time[0] = Zero
                /\ \A i \in DOMAIN result.time \ {0} :
                     RLt(result.time[i - 1], result.time[i])
                /\ \A name \in { "capital", "output", "consumption", "investment" } :
                     DOMAIN result.states[name] = DOMAIN result.time

\* A Solow result on a grid whose step does not divide the horizon.
C9_Witness ==
    /\ pc = "returned"
    /\ op = "simulate_solow"
    /\ horizon = 1
    /\ time_step = R(2)
    /\ PyLen(result.time) = 2

\* C10: at every recorded period tau, income = consumption + investment + G,
\* with G the government spending in effect at tau (the original G plus all G
\* shocks with time <= tau), for any schedule of G, T and M shocks.
C10_NationalIncomeIdentity ==
    (InISLM /\ AllTypesKnown) =>
        \A tau \in Recorded :
            income[tau] =
                RAdd(RAdd(consumption[tau], investment[tau]),
                     RAdd(engine_model.params.government_spending,
                          SumShocks("G", tau)))

\* A G shock and an M shock at different times, both recorded.
C10_Witness ==
    /\ pc = "returned"
    /\ InISLM /\ AllTypesKnown
    /\ PyLen(shock_times) = 2
    /\ shock_types[0] = "G" /\ shock_types[1] = "M"
    /\ shock_times[0] = 1 /\ shock_times[1] = 2
    /\ horizon = 2
    /\ current_G /= engine_model.params.government_spending
    /\ current_M /= engine_model.params.money_supply


(***************************************************************************)
(* Properties of the engine as a whole.                                    *)
(***************************************************************************)

\* C11: the engine never mutates the model it was constructed with.  No step
\* of simulate_solow, impulse_response, simulate_islm or
\* islm_impulse_response, of a call that returns or of one that raises,
\* changes engine.model or a field of engine.model.params; a shock binds a
\* new model to a local name.
C11_EngineModelNeverMutated == [][engine_model' = engine_model]_vars

\* A call that raised after an earlier shock had already bound a new model.
C11_Witness ==
    /\ InISLM
    /\ pc = "raised"
    /\ current_model /= engine_model
    /\ current_model.params /= engine_model.params

\* What the call of thread th returns or raises when nothing else runs.
ThreadAlone(th) ==
    simulate_islm(engine_model, frames[th].horizon, { frames[th].shock_times },
                  { frames[th].shock_types }, { frames[th].shock_sizes })

\* C12: interleaved simulate_islm calls on one engine do not interfere.  At
\* every point of every interleaving of the per-period steps, each running
\* or finished call is on the way to (or at) exactly the result or error it
\* produces when it runs alone with the same arguments.
C12_NoInterference ==
    \A th \in Threads :
        frames[th].pc /= "idle" =>
            frame_run(engine_model, frames[th]) = ThreadAlone(th)

\* Both calls are past period 1 at the same time and work on different models.
C12_Witness ==
    /\ frames[1].pc = "islm_loop" /\ frames[1].t = 2
    /\ frames[2].pc = "islm_loop" /\ frames[2].t = 2
    /\ frames[1].current_model /= frames[2].current_model
    /\ frames[1].current_model /= engine_model

\* The outcome of the engine's running call equals the outcome fr.
SameOutcome(fr) ==
    /\ pc = fr.pc
    /\ result = fr.result
    /\ error = fr.error

\* The parameters of the engine's model after one shock (type, size).
ShiftedOnce(type, size) ==
    new_params(engine_model.params,
               shocked_G(engine_model.params.government_spending, type, size),
               shocked_T(engine_model.params.taxes, type, size),
               shocked_M(engine_model.params.money_supply, type, size))

\* Indices lo..horizon of the four series hold the equilibrium eq.
HoldsFrom(lo, eq) ==
    \A i \in lo .. horizon :
        /\ result.states.income[i] = eq.income
        /\ result.states.interest_rate[i] = eq.interest_rate
        /\ result.states.consumption[i] = eq.consumption
        /\ result.states.investment[i] = eq.investment

\* C13: islm_impulse_response(shock_type, shock_size, horizon) ends exactly as
\* simulate_islm(horizon, [1], [shock_type], [shock_size]) ends (the same
\* result, or the same error), and a returned result has the unshocked
\* equilibrium at index 0 and the equilibrium of the shifted parameters at
\* every index 1..horizon.  simulate_islm is the function every finished
\* simulate_islm call of the engine agrees with.
C13_ImpulseResponseIsSimulate ==
    /\ (op = "simulate_islm" /\ pc \in { "returned", "raised" }) =>
          SameOutcome(simulate_islm(engine_model, horizon, { shock_times },
                                    { shock_types }, { shock_sizes }))
    /\ (op = "islm_impulse_response" /\ pc \in { "returned", "raised" }) =>
          /\ PyLen(shock_types) = 1 /\ PyLen(shock_sizes) = 1
          /\ SameOutcome(simulate_islm(engine_model, horizon,
                                       { [ i \in {0} |-> 1 ] },
                                       { shock_types }, { shock_sizes }))
          /\ pc = "returned" =>
               /\ result.states.income[0] =
                      calculate_equilibrium(engine_model.params).income
               /\ result.states.interest_rate[0] =
                      calculate_equilibrium(engine_model.params).interest_rate
               /\ HoldsFrom(1, calculate_equilibrium(
                                   ShiftedOnce(shock_types[0], shock_sizes[0])))

\* A returned impulse response to a G shock over two periods: the shift
\* appears at index 1 and is still there at index 2.
C13_Witness ==
    /\ op = "islm_impulse_response"
    /\ pc = "returned"
    /\ horizon = 2
    /\ shock_types[0] = "G"
    /\ result.states.income[1] /= result.states.income[0]
    /\ result.states.income[2] = result.states.income[1]


(***************************************************************************)
(* Properties of ISLMModel and of the parameter sets.                      *)
(***************************************************************************)

\* The determinant of the coefficient matrix of the linear system
\* equations(p, Y, r) = 0, read off its differences along Y and along r.
SystemDeterminant(p) ==
    RSub(RMul(RSub(equations(p, One, Zero)[1], equations(p, Zero, Zero)[1]),
              RSub(equations(p, Zero, One)[2], equations(p, Zero, Zero)[2])),
         RMul(RSub(equations(p, Zero, One)[1], equations(p, Zero, Zero)[1]),
              RSub(equations(p, One, Zero)[2], equations(p, Zero, Zero)[2])))

\* C14: for every valid IS-LM parameter set, the (income, interest_rate) that
\* calculate_equilibrium returns lies on both loci: is_curve(r*) = Y* and
\* lm_curve(Y*) = r*; the returned aggregate_demand equals income; and the
\* pair is the unique solution of the 2x2 linear system (it solves both
\* equations and the system's determinant is not zero).
C14_EquilibriumOnBothLoci ==
    call.op = "calculate_equilibrium" =>
        /\ ISLMParametersValid(obj.fields)
        /\ is_curve(obj.fields, call.out.interest_rate) = call.out.income
        /\ lm_curve(obj.fields, call.out.income) = call.out.interest_rate
        /\ call.out.aggregate_demand = call.out.income
        /\ equations(obj.fields, call.out.income, call.out.interest_rate)
               = << Zero, Zero >>
        /\ SystemDeterminant(obj.fields) /= Zero

\* An equilibrium the solver had to move to from its initial guess.
C14_Witness ==
    /\ call.op = "calculate_equilibrium"
    /\ call.out.income /= initial_guess(obj.fields)[1]
    /\ call.out.interest_rate /= initial_guess(obj.fields)[2]
    /\ obj.fields.government_spending = Zero

\* C15: fiscal expansion with crowding out.  For every valid IS-LM parameter
\* set and delta_g > 0 (taxes unchanged), fiscal_expansion_effect returns
\* delta_income > 0, delta_interest_rate > 0, delta_investment < 0, and
\* delta_income strictly below the naive multiplier effect delta_g / (1 - mpc).
C15_FiscalCrowdingOut ==
    ( /\ call.op = "fiscal_expansion_effect"
      /\ RLt(Zero, call.delta_g)
      /\ call.delta_t = Zero ) =>
        /\ RLt(Zero, call.out.delta_income)
        /\ RLt(Zero, call.out.delta_interest_rate)
        /\ RLt(call.out.delta_investment, Zero)
        /\ RLt(call.out.delta_income,
               RDiv(call.delta_g, RSub(One, obj.fields.mpc)))

C15_Witness ==
    /\ call.op = "fiscal_expansion_effect"
    /\ call.delta_g = R(10)
    /\ call.delta_t = Zero
    /\ RLt(call.out.delta_investment, Zero)
    /\ obj.fields.mpc = Q(1, 2)

\* p and q are the same parameter set but for money_supply.
DifferOnlyInMoneySupply(p, q) ==
    /\ p.money_supply /= q.money_supply
    /\ \A f \in ISLMFields \ { "money_supply" } : p[f] = q[f]

\* C16: monetary comparative statics.  Of two valid IS-LM parameter sets that
\* differ only in money_supply, the one with the larger money_supply has the
\* strictly higher equilibrium income and the strictly lower equilibrium
\* interest rate; monetary_expansion_effect(delta_m) with delta_m > 0 returns
\* delta_income > 0, delta_interest_rate < 0, delta_investment > 0 and
\* delta_consumption > 0.
C16_MonetaryExpansion ==
    ( /\ call.op = "monetary_expansion_effect"
      /\ RLt(Zero, call.delta_m) ) =>
        /\ ISLMParametersValid(call.new_params)
        /\ DifferOnlyInMoneySupply(obj.fields, call.new_params)
        /\ RLt(obj.fields.money_supply, call.new_params.money_supply)
        /\ RLt(calculate_equilibrium(obj.fields).income,
               calculate_equilibrium(call.new_params).income)
        /\ RLt(calculate_equilibrium(call.new_params).interest_rate,
               calculate_equilibrium(obj.fields).interest_rate)
        /\ RLt(Zero, call.out.delta_income)
        /\ RLt(call.out.delta_interest_rate, Zero)
        /\ RLt(Zero, call.out.delta_investment)
        /\ RLt(Zero, call.out.delta_consumption)

C16_Witness ==
    /\ call.op = "monetary_expansion_effect"
    /\ call.delta_m = R(10)
    /\ RLt(call.out.delta_interest_rate, Zero)
    /\ obj.fields.price_level = R(2)

\* C17: tax comparative statics.  For every valid IS-LM parameter set and
\* delta_t > 0, raising taxes by delta_t (fiscal_expansion_effect(0, delta_t);
\* a 'T' shock of simulate_islm computes the equilibrium of the same shifted
\* parameters) strictly lowers equilibrium income and the equilibrium
\* interest rate and strictly raises investment.
C17_TaxIncrease ==
    ( /\ call.op = "fiscal_expansion_effect"
      /\ call.delta_g = Zero
      /\ RLt(Zero, call.delta_t) ) =>
        /\ call.new_params =
               new_params(obj.fields, obj.fields.government_spending,
                          shocked_T(obj.fields.taxes, "T", call.delta_t),
                          obj.fields.money_supply)
        /\ RLt(call.out.delta_income, Zero)
        /\ RLt(call.out.delta_interest_rate, Zero)
        /\ RLt(Zero, call.out.delta_investment)

C17_Witness ==
    /\ call.op = "fiscal_expansion_effect"
    /\ call.delta_g = Zero
    /\ call.delta_t = R(10)
    /\ RLt(call.out.delta_income, Zero)

\* The bound of field f of parameter class kind.
InsideDeclaredBound(kind, f, x) ==
    CASE kind = "SolowParameters"
           /\ f \in { "savings_rate", "depreciation_rate", "alpha" } ->
             RLt(Zero, x) /\ RLt(x, One)
      [] kind = "SolowParameters"
           /\ f \in { "population_growth", "tech_growth" } ->
             RLe(Zero, x) /\ RLt(x, Q(1, 10))
      [] kind = "ISLMParameters" /\ f = "mpc" ->
             RLt(Zero, x) /\ RLt(x, One)
      [] kind = "ISLMParameters" /\ f \in { "government_spending", "taxes" } ->
             RLe(Zero, x)
      [] OTHER -> RLt(Zero, x)

\* C18: constructing a parameter set succeeds exactly when every field is
\* inside its declared bound, and otherwise fails with a validation error.
\* Solow s, delta, alpha in (0, 1); n, g in [0, 0.1); k0 > 0.  IS-LM c0, i0,
\* i1, L0, L1, L2, M, P > 0; mpc in (0, 1); G >= 0 and T >= 0.
C18_ConstructionBounds ==
    call.op \in { "ISLMParameters", "SolowParameters" } =>
        /\ (call.error = None) <=>
               \A f \in DOMAIN call.args :
                   InsideDeclaredBound(call.op, f, call.args[f])
        /\ call.error = None => (obj /= None /\ obj.kind = call.op)
        /\ call.error /= None =>
               (call.error.kind = "ValidationError" /\ obj = None)

\* tech_growth = 0.1, the excluded end of [0, 0.1), is rejected.
C18_Witness ==
    /\ call.op = "SolowParameters"
    /\ call.args.tech_growth = Q(1, 10)
    /\ call.error /= None
    /\ obj = None

\* C19: parameter sets are immutable and field-preserving.  After a
\* successful construction every field passed in reads back with the value
\* passed; an assignment to a field of a SolowParameters or ISLMParameters
\* instance fails with an error and the field keeps its value.
C19_FrozenFieldPreserving ==
    /\ (call.op \in { "ISLMParameters", "SolowParameters" } /\ call.error = None) =>
           \A f \in DOMAIN call.args : obj.fields[f] = call.args[f]
    /\ call.op = "setattr" =>
           /\ call.error /= None
           /\ call.error.kind = "ValidationError"
           /\ obj.fields[call.field] = call.before

\* An assignment of a new value to a field of a SolowParameters instance.
C19_Witness ==
    /\ call.op = "setattr"
    /\ obj.kind = "SolowParameters"
    /\ call.field = "savings_rate"
    /\ call.value /= call.before
    /\ obj.fields.savings_rate = call.before

\* C20: every parameter set on which an equilibrium is computed satisfies
\* the declared bounds: the shifted parameter sets of fiscal_expansion_effect
\* and monetary_expansion_effect are validated, so a shift that makes G < 0,
\* T < 0 or M <= 0 ends in a validation error, not in an equilibrium.
C20_ShiftedParametersValidated ==
    call.op \in { "fiscal_expansion_effect", "monetary_expansion_effect" } =>
        \/ ISLMParametersValid(call.new_params)
        \/ (call.error /= None /\ call.error.kind = "ValidationError")

\* C21: the SimulationResult of a call is immutable once returned: while the
\* caller holds it, nothing the caller does to the shock_times, shock_types or
\* shock_sizes lists it passed (and no later engine step) alters the result's
\* time, states or metadata.
C21_ResultImmutableOnceReturned ==
    [][ (pc \in { "returned", "held" } /\ pc' \in { "returned", "held" })
            => result' = result ]_vars

\* C22: for every horizon > 0 and time_step > 0, also a time_step that does
\* not divide the horizon, the time grid of simulate_solow starts at 0,
\* advances in increments of time_step, has ceil(horizon / time_step) + 1
\* points, and its last point is at or beyond the horizon.
C22_TimeGrid ==
    (pc = "returned" /\ op \in { "simulate_solow", "impulse_response" }) =>
        /\ result.time[0] = Zero
        /\ \A i \in DOMAIN result.time : result.time[i] = RMul(R(i), time_step)
        /\ PyLen(result.time) = RCeil(RDiv(R(horizon), time_step)) + 1
        /\ RLe(R(horizon), result.time[PyLen(result.time) - 1])

\* The Solow call, run by simulate_solow or impulse_response, has returned.
SolowReturned ==
    pc = "returned" /\ op \in { "simulate_solow", "impulse_response" }

\* The sum of two quantities that are multiples of the same product of powers.
MAdd(a, b) == [ c |-> RAdd(a.c, b.c), factors |-> a.factors ]

\* C23: at every time point of a Solow result consumption + investment =
\* output, consumption = (1 - s) * output and investment = s * output, s being
\* the savings rate of the model that generated the path (for
\* impulse_response: the shocked savings rate).
C23_SolowIncomeIdentity ==
    SolowReturned =>
        \A i \in DOMAIN result.time :
            /\ result.states.consumption[i] =
                   MScale(RSub(One, sim_model.params.savings_rate),
                          result.states.output[i])
            /\ result.states.investment[i] =
                   MScale(sim_model.params.savings_rate, result.states.output[i])
            /\ result.states.consumption[i].factors =
                   result.states.investment[i].factors
            /\ MAdd(result.states.consumption[i], result.states.investment[i]) =
                   result.states.output[i]

\* An impulse response to a savings-rate shock has returned a path of several
\* points, generated with a savings rate other than the engine's.
C23_Witness ==
    /\ SolowReturned
    /\ op = "impulse_response"
    /\ shock_var = "savings_rate"
    /\ sim_model.params.savings_rate /= engine_model.params.savings_rate
    /\ PyLen(result.time) >= 3

HandlerServed ==
    /\ http /= None
    /\ http.request.method = "POST"
    /\ \/ http.via \in { "solow_router", "islm_router" }
       \/ http.via = "app" /\ http.request \in SolowRequests

\* Every bounded field of the request body is inside its declared bound.
FieldsInBounds(req) ==
    CASE req.path \in { "/api/solow/steady-state" } ->
             SolowParametersValid(req.body)
      [] req.path \in { "/api/solow/simulate", "/api/solow/impulse-response" } ->
             /\ SolowParametersValid(req.body.parameters)
             /\ 0 < req.body.horizon /\ req.body.horizon <= 500
             /\ RLt(Zero, req.body.time_step) /\ RLe(req.body.time_step, One)
      [] req.path \in { "/api/islm/equilibrium" } ->
             ISLMParametersValid(islm_defaults(req.body))
      [] req.path \in { "/api/islm/fiscal-effect", "/api/islm/monetary-effect" } ->
             ISLMParametersValid(islm_defaults(req.body.parameters))
      [] OTHER ->
             /\ ISLMParametersValid(islm_defaults(req.body.parameters))
             /\ 0 < req.body.horizon /\ req.body.horizon <= 100

\* The error the core raises on the request's arguments, or None.
CoreError(req) ==
    CASE req.path = "/api/solow/impulse-response" ->
             impulse_response(req.body.parameters, req.body.shock_var,
                              req.body.shock_size, req.body.horizon,
                              req.body.time_step).error
      [] req.path = "/api/islm/simulate" ->
             simulate_islm(ISLMModel(islm_defaults(req.body.parameters)),
                           req.body.horizon, { req.body.shock_times },
                           { req.body.shock_types }, { req.body.shock_sizes }).error
      [] req.path = "/api/islm/impulse-response" ->
             islm_impulse_response(ISLMModel(islm_defaults(req.body.parameters)),
                                   req.body.shock_type, req.body.shock_size,
                                   req.body.horizon).error
      [] OTHER -> None

\* C25: every error the core raises while a Solow or IS-LM route handler runs
\* is answered with HTTP status 400 carrying the error, and a request with a
\* field outside the request schema's bounds is answered 422 whatever the core
\* would have done with it; every other request is answered 200.
C25_CoreErrorsAre400 ==
    HandlerServed =>
        /\ ~FieldsInBounds(http.request) => http.response.status = 422
        /\ (FieldsInBounds(http.request) /\ CoreError(http.request) /= None) =>
               /\ http.response.status = 400
               /\ http.response.detail = CoreError(http.request)
        /\ (FieldsInBounds(http.request) /\ CoreError(http.request) = None) =>
               http.response.status = 200

\* The IS-LM simulate handler ran on a request inside the schema's bounds and
\* the core raised a validation error in its period loop.
C25_Witness ==
    /\ HandlerServed
    /\ http.request.path = "/api/islm/simulate"
    /\ FieldsInBounds(http.request)
    /\ CoreError(http.request) /= None
    /\ CoreError(http.request).kind = "ValidationError"
    /\ http.response.status = 400

\* C26: through the application, GET /health, GET /api/solow/health and
\* GET /api/islm/health each answer 200 with their static payload, and every
\* IS-LM route is served just as the router's handler serves it.
C26_HealthAndISLMReachable ==
    (http /= None /\ http.via = "app") =>
        /\ http.request = Get("/health") =>
               http.response = response_ok([ status |-> "healthy" ])
        /\ http.request = Get("/api/solow/health") =>
               http.response = response_ok([ status |-> "healthy", model |-> "solow" ])
        /\ http.request = Get("/api/islm/health") =>
               http.response = response_ok([ status |-> "healthy", model |-> "islm" ])
        /\ http.request \in ISLMRequests =>
               http.response = islm_router(http.request)

\* The running or finished call is simulate_islm with shock arrays of
\* unequal lengths.
UnevenArrays ==
    /\ op = "simulate_islm"
    /\ \/ PyLen(shock_types) /= PyLen(shock_times)
       \/ PyLen(shock_sizes) /= PyLen(shock_times)

\* The periods 1..horizon at which a shock is due whose index has no type or
\* no size.
MissingTimes ==
    { tau \in 1 .. horizon :
        \E i \in DOMAIN shock_times :
            /\ shock_times[i] = tau
            /\ (i \notin DOMAIN shock_types \/ i \notin DOMAIN shock_sizes) }

\* The same call with shock_types and shock_sizes cut to the length of
\* shock_times.
CutToTimes ==
    simulate_islm(engine_model, horizon, { shock_times },
                  { first_entries(shock_types, PyLen(shock_times)) },
                  { first_entries(shock_sizes, PyLen(shock_times)) })

\* C30: with shock arrays of unequal lengths simulate_islm fails only when its
\* loop reaches the period of a shock whose index has no type or size, after
\* the equilibria of all earlier periods were computed, and returns if no such
\* shock is due in 1..horizon; entries of shock_types and shock_sizes beyond
\* the length of shock_times are never applied.
C30_UnevenArrays ==
    UnevenArrays =>
        /\ pc = "raised" =>
               /\ error.kind = "IndexError"
               /\ MissingTimes /= {}
               /\ \A tau \in MissingTimes : t <= tau
               /\ t \in MissingTimes
               /\ n_equilibria = t
        /\ (pc = "islm_loop" /\ \A tau \in MissingTimes : t <= tau) => error = None
        /\ pc = "returned" =>
               /\ MissingTimes = {}
               /\ result.states = CutToTimes.result.states

\* A call with one shock time more than types has computed the equilibria of
\* periods 0 and 1 and failed in period 2, where the shock without a type is due.
C30_Witness ==
    /\ UnevenArrays
    /\ pc = "raised"
    /\ error.kind = "IndexError"
    /\ horizon = 2
    /\ PyLen(shock_times) = 2 /\ PyLen(shock_types) = 1
    /\ shock_times[0] = 1 /\ shock_times[1] = 2
    /\ t = 2 /\ n_equilibria = 2

\* The three shock arrays of the call have one entry per shock.
EvenArrays ==
    /\ InISLM
    /\ DOMAIN shock_types = DOMAIN shock_times
    /\ DOMAIN shock_sizes = DOMAIN shock_times

\* The list l without its entry i.
WithoutEntry(l, i) ==
    [ n \in 0 .. (PyLen(l) - 2) |-> IF n < i THEN l[n] ELSE l[n + 1] ]

\* The same call with shock i taken out of the three arrays.
WithoutShock(i) ==
    simulate_islm(engine_model, horizon,
                  { WithoutEntry(shock_times, i) },
                  { WithoutEntry(shock_types, i) },
                  { WithoutEntry(shock_sizes, i) })

\* The finished call ended as fr did: the same series, or the same error.
SameSeriesOrError(fr) ==
    /\ pc = fr.pc
    /\ pc = "returned" =>
           /\ result.time = fr.result.time
           /\ result.states = fr.result.states
    /\ pc = "raised" => error = fr.error

\* C27: a shock whose shock_type is none of "G", "T", "M" is silently ignored:
\* it raises nothing, and the call ends as the same call does with that shock
\* removed from the arrays, with identical series.
C27_UnknownTypeIgnored ==
    (EvenArrays /\ pc \in { "returned", "raised" }) =>
        \A i \in DOMAIN shock_times :
            shock_types[i] \notin { "G", "T", "M" } => SameSeriesOrError(WithoutShock(i))

\* A call with an "X" shock in period 1 and a G shock in period 2 has
\* returned: period 1 repeats period 0, period 2 does not.
C27_Witness ==
    /\ EvenArrays
    /\ pc = "returned"
    /\ horizon = 2
    /\ PyLen(shock_times) = 2
    /\ shock_times[0] = 1 /\ shock_types[0] = "X"
    /\ shock_times[1] = 2 /\ shock_types[1] = "G"
    /\ income[1] = income[0]
    /\ income[2] /= income[1]

\* The orders the shocks of the call can be listed in.
Orders ==
    { f \in [ DOMAIN shock_times -> DOMAIN shock_times ] :
        \A a, b \in DOMAIN shock_times : f[a] = f[b] => a = b }

\* The same call with the (time, type, size) triples listed in order f.
Reordered(f) ==
    simulate_islm(engine_model, horizon,
                  { [ i \in DOMAIN shock_times |-> shock_times[f[i]] ] },
                  { [ i \in DOMAIN shock_times |-> shock_types[f[i]] ] },
                  { [ i \in DOMAIN shock_times |-> shock_sizes[f[i]] ] })

\* C28: the outcome of simulate_islm does not depend on the order in which the
\* shock triples are listed: listed in any other order, the call returns the
\* same series or raises as well, also when several shocks to one variable
\* share a period and a partial sum of theirs is out of bounds while their
\* total is not.
C28_OrderIndependent ==
    (EvenArrays /\ op = "simulate_islm" /\ pc \in { "returned", "raised" }) =>
        \A f \in Orders :
            /\ pc = Reordered(f).pc
            /\ pc = "returned" => result.states = Reordered(f).result.states

\* Shock i is scheduled outside the periods 1..horizon of the loop.
OutOfRange(i) == shock_times[i] < 1 \/ shock_times[i] > horizon

\* C29: index 0 of every series is the equilibrium of the unshocked model, and
\* a shock scheduled at time 0, at a negative time or after the horizon is
\* never applied and never validated: the call ends as it does without that
\* shock, whatever the shock's size, and its triple is still echoed in the
\* result's metadata.
C29_OutOfRangeShocks ==
    (EvenArrays /\ pc \in { "islm_loop", "returned", "raised" }) =>
        /\ SameAsEquilibrium(0, calculate_equilibrium(engine_model.params))
        /\ pc = "raised" =>
               \E i \in DOMAIN shock_times : ~OutOfRange(i) /\ shock_times[i] = error.period
        /\ pc \in { "returned", "raised" } =>
               \A i \in DOMAIN shock_times :
                   OutOfRange(i) => SameSeriesOrError(WithoutShock(i))
        /\ pc = "returned" =>
               /\ result.states.income[0] =
                      calculate_equilibrium(engine_model.params).income
               /\ result.metadata.shock_times = shock_times
               /\ result.metadata.shock_types = shock_types
               /\ result.metadata.shock_sizes = shock_sizes

\* A call has returned whose two shocks, one at time -1 and one after the
\* horizon, would each have taken a parameter out of its bound: the series are
\* constant and the metadata lists both shocks.
C29_Witness ==
    /\ EvenArrays
    /\ op = "simulate_islm"
    /\ pc = "returned"
    /\ horizon = 2
    /\ PyLen(shock_times) = 2
    /\ shock_times[0] = -1 /\ shock_types[0] = "T" /\ shock_sizes[0] = R(-30)
    /\ shock_times[1] = 3 /\ shock_types[1] = "M" /\ shock_sizes[1] = R(-30)
    /\ ~InBounds(ShiftedOnce("T", R(-30)))
    /\ ~InBounds(ShiftedOnce("M", R(-30)))
    /\ result.states.income[2] = result.states.income[0]
    /\ PyLen(result.metadata.shock_times) = 2

====
